---- MODULE Spec2Model ----
(***************************************************************************)
(* A model of ScriptSnip's subtitle core (src/src/types.js, class          *)
(* SubtitleProcessor) and of the part of CondenserEngine.condenseSingleFile*)
(* that drives it (src/src/condenser-engine.js).                           *)
(*                                                                         *)
(* Times are integer milliseconds.  A text is a sequence of characters,    *)
(* each character a one-token string ("LF" is the newline, "FW(" and "FW)" *)
(* the full-width parentheses).  A subtitle text is a sequence of lines,   *)
(* each line a record that says what the line holds.                       *)
(***************************************************************************)
EXTENDS Integers, Sequences, FiniteSets, TLC

VARIABLES
    pc,               \* position of the caller
    dialect,          \* the dialect the subtitle text was written in
    blocks,           \* what the subtitle text was written from (one item per block / cue / line)
    subtitleContent,  \* the subtitle text, a sequence of lines
    config,           \* [padding, filterParentheses, filteredCharacters, ...]
    subs,             \* extractPeriods' local subs: the parsed entries
    filteredSubs,     \* extractPeriods' local filteredSubs: the surviving entries
    mergeArg,         \* the array handed to mergeOverlappingPeriods, as it was at the call
    rawPeriods,       \* that same array as it is now (the call writes into it)
    periods,          \* the last list mergeOverlappingPeriods / extractPeriods returned
    prevPeriods,      \* the list returned by the call before the last one
    mergeCalls,       \* number of direct mergeOverlappingPeriods calls made
    error,            \* the error thrown, or NoError
    condensedSubs,    \* the entries createCondensedSubtitles built
    mpc,              \* position of the caller of the file matching
    allFiles,         \* the selected files (File objects: an identity and a name)
    videoFiles,       \* validateFiles(allFiles).videoFiles
    subSuffix,        \* config.subSuffix
    scored,           \* the last calculateMatchScore call: its arguments and its result
    seasonMapping,    \* findMultipleMatches' local seasonMapping
    results,          \* findMultipleMatches' local results
    usedSubtitles,    \* findMultipleMatches' local usedSubtitles
    pools,            \* per video, what its findBestSubtitleMatch call computed
    matches,          \* findMatchingSubtitles' local matches
    invalidVideos,    \* findMatchingSubtitles' local invalidVideos
    tpc,              \* position of the caller that writes and reads back a time line
    timeStart,        \* the start time (ms) it writes
    timeEnd,          \* the end time (ms) it writes
    timeText,         \* the time line written, a sequence of characters
    timeBack,         \* what reading the line back gave
    selection,        \* per selected video, whether findMatchingSubtitles found its subtitle
    batchSize,        \* options.batchSize
    isProcessing,     \* the application's isProcessing
    shouldStop,       \* the engine's shouldStop
    runs,             \* the calls of the engine made so far, each with its locals
    ffmpeg,           \* the files of the engine's one FFmpeg instance
    currentProgress   \* the engine's currentProgress, as last reported

coreVars == <<pc, dialect, blocks, subtitleContent, config, subs, filteredSubs, mergeArg,
              rawPeriods, periods, prevPeriods, mergeCalls, error, condensedSubs>>

matchVars == <<mpc, allFiles, videoFiles, subSuffix, scored, seasonMapping, results,
               usedSubtitles, pools, matches, invalidVideos>>

timeVars == <<tpc, timeStart, timeEnd, timeText, timeBack>>

batchVars == <<selection, batchSize, isProcessing, shouldStop, runs, ffmpeg, currentProgress>>

vars == <<coreVars, matchVars, timeVars, batchVars>>

\* ---------------------------------------------------------------- bounds
MaxLen == 3        \* raw periods in a direct mergeOverlappingPeriods call
MaxRawTime == 2    \* largest start / end of an enumerated raw period

NoError == [by |-> "none", message |-> "none"]
NoConfig == [padding |-> 0, filterParentheses |-> FALSE, filteredCharacters |-> <<>>,
             outputCondensedSubtitles |-> FALSE]

Max(a, b) == IF a >= b THEN a ELSE b

\* JS null where a File, a mapping or a call record is expected.
NoFile == [id |-> 0, name |-> <<>>]
NoMapping == [direction |-> "none", seasonToSequential |-> <<>>,
              sequentialToSeason |-> <<>>, episodeCounts |-> <<>>]
NoScore == [called |-> FALSE]

\* No file matching is going on.
MatchIdle ==
    /\ mpc = "idle"
    /\ allFiles = <<>>
    /\ videoFiles = <<>>
    /\ subSuffix = <<>>
    /\ scored = NoScore
    /\ seasonMapping = NoMapping
    /\ results = <<>>
    /\ usedSubtitles = {}
    /\ pools = <<>>
    /\ matches = <<>>
    /\ invalidVideos = <<>>

\* The time line was not read (yet), or the pattern did not match it.
NoRead == [matched |-> FALSE, startTime |-> 0, endTime |-> 0]

\* No time line is being written.
TimeIdle ==
    /\ tpc = "idle"
    /\ timeStart = 0
    /\ timeEnd = 0
    /\ timeText = <<>>
    /\ timeBack = NoRead

\* FFmpeg's file system holds neither 'input.mkv' nor 'output.wav'; a file is
\* named by the video its data came from.
NoFiles == [input |-> 0, output |-> 0]

\* part_002:13-27   currentProgress after construction; percentComplete is the
\* fraction n / d.
NoProgress == [fileIndex |-> 0, totalFiles |-> 0, currentFileProgress |-> 0,
               percentComplete |-> [n |-> 0, d |-> 1]]

\* The engine was constructed and never called.
BatchIdle ==
    /\ selection = <<>>
    /\ batchSize = 0
    /\ isProcessing = FALSE
    /\ shouldStop = FALSE
    /\ runs = <<>>
    /\ ffmpeg = NoFiles
    /\ currentProgress = NoProgress

\* ------------------------------------------------ mergeOverlappingPeriods
\* A raw period is a pair <<start, end>> (the JS array [start, end]); a merged
\* period is a record [start, end] (the JS object {start, end}).

\* Mutant of Absorbs: a touching boundary no longer counts.
AbsorbsStrict(current, next) == current[2] > next[1]

\* types.js:1242   periods[i][1] >= periods[j][0]
Absorbs(current, next) == current[2] >= next[1]

\* Mutant of Absorb: the run keeps the larger end instead of taking next's end.
AbsorbMax(ps, i, j) == [ps EXCEPT ![i] = <<ps[i][1], Max(ps[i][2], ps[j][2])>>]

\* types.js:1243   periods[i][1] = periods[j][1]   (written into the argument)
Absorb(ps, i, j) == [ps EXCEPT ![i] = <<ps[i][1], ps[j][2]>>]

\* Mutant of NextIndex: the scan resumes right after i, inside the absorbed run.
NextIndexNoSkip(i, expanded) == i + 1

\* types.js:1250   i += expanded + 1
NextIndex(i, expanded) == i + expanded + 1

\* types.js:1249   merged.push({ start: periods[i][0], end: periods[i][1] })
Emit(ps, i) == [start |-> ps[i][1], end |-> ps[i][2]]

\* Mutant of Expand: the inner loop has lost its break, so it scans on past the
\* first period that is not absorbed.
RECURSIVE ExpandNoBreak(_, _, _, _)
ExpandNoBreak(ps, i, j, expanded) ==
    IF j > Len(ps) THEN [periods |-> ps, expanded |-> expanded]
    ELSE IF Absorbs(ps[i], ps[j])
         THEN ExpandNoBreak(Absorb(ps, i, j), i, j + 1, expanded + 1)
         ELSE ExpandNoBreak(ps, i, j + 1, expanded)

\* types.js:1240-1248   the inner for loop over j, from j on, with `expanded`
\* absorbed so far; yields the array as written and the final `expanded`.
RECURSIVE Expand(_, _, _, _)
Expand(ps, i, j, expanded) ==
    IF j > Len(ps) THEN [periods |-> ps, expanded |-> expanded]
    ELSE IF Absorbs(ps[i], ps[j])
         THEN Expand(Absorb(ps, i, j), i, j + 1, expanded + 1)
         ELSE [periods |-> ps, expanded |-> expanded]

\* types.js:1239-1251   the outer while loop from index i on (1-based here).
RECURSIVE MergeFrom(_, _, _)
MergeFrom(ps, i, merged) ==
    IF i > Len(ps) THEN [merged |-> merged, periods |-> ps]
    ELSE LET x == Expand(ps, i, i + 1, 0)
         IN  MergeFrom(x.periods, NextIndex(i, x.expanded),
                       Append(merged, Emit(x.periods, i)))

\* types.js:1235-1254   yields the returned list (merged) and the argument array
\* as the call leaves it (periods).
mergeOverlappingPeriods(ps) == MergeFrom(ps, 1, <<>>)

\* A returned period list taken as [start, end] pairs.
AsPairs(ms) == [k \in 1..Len(ms) |-> <<ms[k].start, ms[k].end>>]

\* ------------------------------------------------------------ characters
\* The code point of each character the model writes texts with.
Lower ==
    <<"a", "b", "c", "d", "e", "f", "g", "h", "i", "j", "k", "l", "m", "n", "o", "p",
      "q", "r", "s", "t", "u", "v", "w", "x", "y", "z">>
Code ==
    [c \in {"LF", " ", "(", ")", ",", "-", "/", "1", "2", "3", "<", ">", "H", "[", "]",
            "{", "}", "FW(", "FW)", "^", "\\"} \cup {Lower[k] : k \in 1..Len(Lower)} |->
        CASE c = "LF" -> 10  [] c = " " -> 32  [] c = "(" -> 40  [] c = ")" -> 41
          [] c = "," -> 44   [] c = "-" -> 45  [] c = "/" -> 47  [] c = "1" -> 49
          [] c = "2" -> 50   [] c = "3" -> 51  [] c = "<" -> 60  [] c = ">" -> 62
          [] c = "H" -> 72   [] c = "[" -> 91  [] c = "]" -> 93
          [] c = "^" -> 94   [] c = "\\" -> 92
          [] c = "{" -> 123  [] c = "}" -> 125
          [] c = "FW(" -> 65288 [] c = "FW)" -> 65289
          [] OTHER -> 96 + (CHOOSE k \in 1..Len(Lower) : Lower[k] = c)]

\* String.prototype.trim: white space is taken off both ends.
IsSpace(c) == c \in {" ", "LF"}

RECURSIVE TrimStart(_)
TrimStart(t) == IF t # <<>> /\ IsSpace(Head(t)) THEN TrimStart(Tail(t)) ELSE t

RECURSIVE TrimEnd(_)
TrimEnd(t) ==
    IF t # <<>> /\ IsSpace(t[Len(t)]) THEN TrimEnd(SubSeq(t, 1, Len(t) - 1)) ELSE t

Trim(t) == TrimEnd(TrimStart(t))

\* Array.prototype.join over texts.
RECURSIVE Join(_, _)
Join(ts, sep) ==
    IF ts = <<>> THEN <<>>
    ELSE IF Len(ts) = 1 THEN ts[1]
    ELSE ts[1] \o sep \o Join(Tail(ts), sep)

\* ------------------------------------------------------------ lines
\* A timestamp as written: its hour, minute, second and fraction digits.
Stamp(h, m, s, f) == [h |-> h, m |-> m, s |-> s, f |-> f]
NoStamp == Stamp(0, 0, 0, 0)

\* A line of a subtitle text.  k says what the line is:
\*   "blank"       an empty or white-space line
\*   "num"         an integer n alone on the line
\*   "time"        ts --> te, the fraction separated by sep ("," or ".")
\*   "text"        the characters t (none of them a digit or a line break)
\*   "webvtt", "note", "scriptinfo", "v4styles"   the lines so spelt
\*   "dialogue"    "Dialogue:" followed by the comma-separated fields parts
Line(k, n, ts, te, sep, t, parts) ==
    [k |-> k, n |-> n, ts |-> ts, te |-> te, sep |-> sep, t |-> t, parts |-> parts]

BlankLine == Line("blank", 0, NoStamp, NoStamp, "", <<>>, <<>>)
NumLine(n) == Line("num", n, NoStamp, NoStamp, "", <<>>, <<>>)
TimeLine(ts, te, sep) == Line("time", 0, ts, te, sep, <<>>, <<>>)
TextLine(t) == Line("text", 0, NoStamp, NoStamp, "", t, <<>>)
MarkLine(k) == Line(k, 0, NoStamp, NoStamp, "", <<>>, <<>>)
DialogueLine(parts) == Line("dialogue", 0, NoStamp, NoStamp, "", <<>>, parts)

\* A field of a Dialogue line: an ASS time (h:mm:ss.cc, f in centiseconds) or
\* plain characters.
TimePart(ts) == [pk |-> "time", ts |-> ts, c |-> <<>>]
StrPart(c) == [pk |-> "str", ts |-> NoStamp, c |-> c]

\* The characters of a line when it is read as subtitle text.
LineChars(l) ==
    CASE l.k = "text" -> l.t
      [] l.k = "num" -> <<ToString(l.n)>>
      [] l.k = "blank" -> <<>>
      [] OTHER -> <<"-", "-", ">">>

\* ------------------------------------------------------------ parsing
\* types.js:1158-1165
parseTime(hours, minutes, seconds, milliseconds) ==
    hours * 3600000 + minutes * 60000 + seconds * 1000 + milliseconds

\* types.js:1170-1180   a field that is no h:mm:ss.cc time makes it throw
ASSTimeThrows(part) == part.pk # "time"
parseASSTime(part) ==
    part.ts.h * 3600000 + part.ts.m * 60000 + part.ts.s * 1000 + part.ts.f * 10

\* types.js:1027-1037
detectFormat(content) ==
    LET first == {i \in 1..Len(content) :
                     /\ content[i].k # "blank"
                     /\ \A j \in 1..(i - 1) : content[j].k = "blank"}
    IN  IF \E i \in first : content[i].k = "webvtt" THEN "vtt"
        ELSE IF \E i \in 1..Len(content) : content[i].k \in {"scriptinfo", "v4styles"}
             THEN "ass"
        ELSE "srt"

\* content.trim().split(/\n\s*\n/), types.js:1044: the maximal runs of lines
\* that are not blank.  `cur` is the run being read.
RECURSIVE SplitBlocks(_, _, _)
SplitBlocks(content, i, cur) ==
    IF i > Len(content) THEN (IF cur = <<>> THEN <<>> ELSE <<cur>>)
    ELSE IF content[i].k = "blank"
         THEN (IF cur = <<>> THEN <<>> ELSE <<cur>>) \o SplitBlocks(content, i + 1, <<>>)
         ELSE SplitBlocks(content, i + 1, Append(cur, content[i]))

\* parseInt(lines[0]), types.js:1050: nan is TRUE when the line does not start
\* with an integer.
ParseInt(l) ==
    CASE l.k = "num" -> [nan |-> FALSE, v |-> l.n]
      [] l.k = "time" -> [nan |-> FALSE, v |-> l.ts.h]
      [] OTHER -> [nan |-> TRUE, v |-> 0]

\* The timestamp patterns of types.js:1053 (sep ",") and types.js:1091 (sep ".").
TimeMatch(l, sep) == l.k = "time" /\ l.sep = sep

\* Mutant of SRTBlock: a block whose index line is not numeric is kept.
SRTBlockAnyIndex(lines) ==
    IF Len(lines) < 3 THEN <<>>
    ELSE IF ~TimeMatch(lines[2], ",") THEN <<>>
    ELSE LET text == Trim(Join([k \in 1..(Len(lines) - 2) |-> LineChars(lines[k + 2])],
                               <<"LF">>))
         IN  IF text = <<>> THEN <<>>
             ELSE <<[id |-> ParseInt(lines[1]).v,
                     startTime |-> parseTime(lines[2].ts.h, lines[2].ts.m,
                                             lines[2].ts.s, lines[2].ts.f),
                     endTime |-> parseTime(lines[2].te.h, lines[2].te.m,
                                           lines[2].te.s, lines[2].te.f),
                     text |-> text]>>

\* types.js:1047-1067   one block of an SRT text: the entry it yields, or none.
SRTBlock(lines) ==
    IF Len(lines) < 3 THEN <<>>
    ELSE IF ParseInt(lines[1]).nan THEN <<>>
    ELSE IF ~TimeMatch(lines[2], ",") THEN <<>>
    ELSE LET text == Trim(Join([k \in 1..(Len(lines) - 2) |-> LineChars(lines[k + 2])],
                               <<"LF">>))
         IN  IF text = <<>> THEN <<>>
             ELSE <<[id |-> ParseInt(lines[1]).v,
                     startTime |-> parseTime(lines[2].ts.h, lines[2].ts.m,
                                             lines[2].ts.s, lines[2].ts.f),
                     endTime |-> parseTime(lines[2].te.h, lines[2].te.m,
                                           lines[2].te.s, lines[2].te.f),
                     text |-> text]>>

\* Mutant of SRTFrom: the first malformed block ends the parse.
RECURSIVE SRTFromAbort(_, _)
SRTFromAbort(bs, i) ==
    IF i > Len(bs) THEN <<>>
    ELSE IF SRTBlock(bs[i]) = <<>> THEN <<>>
    ELSE SRTBlock(bs[i]) \o SRTFromAbort(bs, i + 1)

\* types.js:1046-1068   the loop over the blocks.
RECURSIVE SRTFrom(_, _)
SRTFrom(bs, i) ==
    IF i > Len(bs) THEN <<>> ELSE SRTBlock(bs[i]) \o SRTFrom(bs, i + 1)

\* types.js:1042-1071
parseSRT(content) == SRTFrom(SplitBlocks(content, 1, <<>>), 1)

\* types.js:1082-1107   the loop over the lines of a VTT text from line i on:
\* entries pushed so far, the cue being read (<<>> when none), the next id.
RECURSIVE VTTFrom(_, _, _, _, _)
VTTFrom(content, i, entries, currentEntry, id) ==
    IF i > Len(content)
    THEN entries \o currentEntry
    ELSE LET l == content[i]
         IN  IF l.k \in {"blank", "webvtt", "note"}
             THEN VTTFrom(content, i + 1, entries, currentEntry, id)
             ELSE IF TimeMatch(l, ".")
             THEN VTTFrom(content, i + 1, entries \o currentEntry,
                          <<[id |-> id,
                             startTime |-> parseTime(l.ts.h, l.ts.m, l.ts.s, l.ts.f),
                             endTime |-> parseTime(l.te.h, l.te.m, l.te.s, l.te.f),
                             text |-> <<>>]>>,
                          id + 1)
             ELSE IF currentEntry # <<>>
             THEN VTTFrom(content, i + 1, entries,
                          <<[currentEntry[1] EXCEPT !.text =
                                (IF @ = <<>> THEN <<>> ELSE @ \o <<"LF">>)
                                \o Trim(LineChars(l))]>>,
                          id)
             ELSE VTTFrom(content, i + 1, entries, currentEntry, id)

\* types.js:1076-1114
parseVTT(content) == VTTFrom(content, 1, <<>>, <<>>, 1)

\* text.replace(/\{[^}]*\}/g, ''), types.js:1134: from a "{" to the next "}".
RECURSIVE StripAssTags(_, _)
StripAssTags(t, i) ==
    IF i > Len(t) THEN <<>>
    ELSE LET close == {j \in (i + 1)..Len(t) : t[j] = "}"}
         IN  IF t[i] = "{" /\ close # {}
             THEN StripAssTags(t, (CHOOSE j \in close : \A k \in close : j <= k) + 1)
             ELSE <<t[i]>> \o StripAssTags(t, i + 1)

\* Mutant of ASSLine: a line with a bad time ends up as an entry at time 0.
ASSLineNoThrow(l, id) ==
    IF l.k # "dialogue" \/ Len(l.parts) < 10 THEN <<>>
    ELSE LET text == StripAssTags(
                         Join([k \in 1..(Len(l.parts) - 9) |-> l.parts[k + 9].c], <<",">>), 1)
         IN  IF Trim(text) = <<>> THEN <<>>
             ELSE <<[id |-> id,
                     startTime |-> parseASSTime(l.parts[2]),
                     endTime |-> parseASSTime(l.parts[3]),
                     text |-> Trim(text)]>>

\* types.js:1125-1149   one line of an ASS text: the entry it yields, or none.
ASSLine(l, id) ==
    IF l.k # "dialogue" \/ Len(l.parts) < 10 THEN <<>>
    ELSE IF ASSTimeThrows(l.parts[2]) \/ ASSTimeThrows(l.parts[3]) THEN <<>>
    ELSE LET text == StripAssTags(
                         Join([k \in 1..(Len(l.parts) - 9) |-> l.parts[k + 9].c], <<",">>), 1)
         IN  IF Trim(text) = <<>> THEN <<>>
             ELSE <<[id |-> id,
                     startTime |-> parseASSTime(l.parts[2]),
                     endTime |-> parseASSTime(l.parts[3]),
                     text |-> Trim(text)]>>

\* Mutant of ASSFrom: the id advances with every line, kept or skipped.
RECURSIVE ASSFromEveryLine(_, _, _)
ASSFromEveryLine(content, i, id) ==
    IF i > Len(content) THEN <<>>
    ELSE ASSLine(content[i], id) \o ASSFromEveryLine(content, i + 1, id + 1)

\* types.js:1124-1150   the loop over the lines.
RECURSIVE ASSFrom(_, _, _)
ASSFrom(content, i, id) ==
    IF i > Len(content) THEN <<>>
    ELSE LET e == ASSLine(content[i], id)
         IN  e \o ASSFrom(content, i + 1, id + Len(e))

\* types.js:1119-1153
parseASS(content) == ASSFrom(content, 1, 1)

\* types.js:1003-1022   none of the three parsers throws on a sequence of lines.
parseSubtitles(content) ==
    CASE detectFormat(content) = "srt" -> parseSRT(content)
      [] detectFormat(content) = "vtt" -> parseVTT(content)
      [] detectFormat(content) = "ass" -> parseASS(content)

\* ------------------------------------------------------------ filtering
\* The end of the tag that /<[^<>]+?>/ matches at position i, 0 when it matches
\* none there: "<", one or more characters that are neither "<" nor ">", ">".
TagEnd(t, i) ==
    IF t[i] # "<" THEN 0
    ELSE LET stop == {j \in (i + 1)..Len(t) : t[j] \in {"<", ">"}}
         IN  IF stop = {} THEN 0
             ELSE LET j == CHOOSE x \in stop : \A y \in stop : x <= y
                  IN  IF t[j] = ">" /\ j >= i + 2 THEN j ELSE 0

RECURSIVE StripFrom(_, _)
StripFrom(t, i) ==
    IF i > Len(t) THEN <<>>
    ELSE IF TagEnd(t, i) > 0 THEN StripFrom(t, TagEnd(t, i) + 1)
    ELSE <<t[i]>> \o StripFrom(t, i + 1)

\* types.js:1259-1261
stripXmlTags(text) == StripFrom(text, 1)

\* Mutant of isEnclosedInParentheses: any opening character pairs with any
\* closing one.
isEnclosedAnyPair(text) ==
    IF Len(text) = 0 THEN FALSE
    ELSE /\ text[1] \in {"(", "FW(", "[", "{"}
         /\ text[Len(text)] \in {")", "FW)", "]", "}"}

\* types.js:1266-1278
isEnclosedInParentheses(text) ==
    IF Len(text) = 0 THEN FALSE
    ELSE LET first == text[1]
             last == text[Len(text)]
         IN  \/ (first = "(" /\ last = ")")
             \/ (first = "FW(" /\ last = "FW)")
             \/ (first = "[" /\ last = "]")
             \/ (first = "{" /\ last = "}")

\* The character class [ escapeRegExp(filteredCharacters) ] of types.js:1205 and
\* 1283-1285, as the code-point ranges it stands for.  escapeRegExp escapes
\* every character that is special in a class except "-", so a "-" between two
\* characters makes a range of them.
RECURSIVE ClassRanges(_, _)
ClassRanges(fc, i) ==
    IF i > Len(fc) THEN {}
    ELSE IF i + 2 <= Len(fc) /\ fc[i + 1] = "-"
         THEN {<<Code[fc[i]], Code[fc[i + 2]]>>} \cup ClassRanges(fc, i + 3)
         ELSE {<<Code[fc[i]], Code[fc[i]]>>} \cup ClassRanges(fc, i + 1)

\* new RegExp throws a SyntaxError on a range that is out of order.
ClassThrows(fc) == \E r \in ClassRanges(fc, 1) : r[1] > r[2]

InClass(c, fc) == \E r \in ClassRanges(fc, 1) : r[1] <= Code[c] /\ Code[c] <= r[2]

\* types.js:1204-1206   text.replace(new RegExp(`[...]`, 'g'), '')
RemoveFiltered(text, fc) ==
    IF fc = <<>> THEN text ELSE SelectSeq(text, LAMBDA c : ~InClass(c, fc))

\* types.js:1193-1209   the filter callback reaches the RegExp of line 1205.
ReachesClass(sub, cfg) ==
    /\ Len(stripXmlTags(sub.text)) # 0
    /\ ~(cfg.filterParentheses /\ isEnclosedInParentheses(stripXmlTags(sub.text)))
    /\ cfg.filteredCharacters # <<>>

\* Mutant of Survives: the text is trimmed again before the enclosure test.
SurvivesTrimmed(sub, cfg) ==
    LET text == stripXmlTags(sub.text)
    IN  IF Len(text) = 0 THEN FALSE
        ELSE IF cfg.filterParentheses /\ isEnclosedInParentheses(Trim(text)) THEN FALSE
        ELSE Len(RemoveFiltered(text, cfg.filteredCharacters)) > 0

\* Mutant of Survives: the parenthesis filter ignores config.filterParentheses.
SurvivesAlwaysFilter(sub, cfg) ==
    LET text == stripXmlTags(sub.text)
    IN  IF Len(text) = 0 THEN FALSE
        ELSE IF isEnclosedInParentheses(text) THEN FALSE
        ELSE Len(RemoveFiltered(text, cfg.filteredCharacters)) > 0

\* types.js:1193-1209   the filter callback: TRUE when the entry is kept.
Survives(sub, cfg) ==
    LET text == stripXmlTags(sub.text)
    IN  IF Len(text) = 0 THEN FALSE
        ELSE IF cfg.filterParentheses /\ isEnclosedInParentheses(text) THEN FALSE
        ELSE Len(RemoveFiltered(text, cfg.filteredCharacters)) > 0

\* ------------------------------------------------------------ extractPeriods
\* Mutant of RawPeriod: the padded start is not clamped at 0.
RawPeriodNoClamp(sub, padding) == <<sub.startTime - padding, sub.endTime + padding>>

\* types.js:1214-1217
RawPeriod(sub, padding) == <<Max(0, sub.startTime - padding), sub.endTime + padding>>

\* Mutant of AdjustLast: the last period keeps its padding.
AdjustLastNot(ps, padding) == ps

\* Mutant of AdjustLast: the padding is taken off every period.
AdjustLastAll(ps, padding) == [k \in 1..Len(ps) |-> <<ps[k][1], ps[k][2] - padding>>]

\* types.js:1220-1222
AdjustLast(ps, padding) ==
    IF Len(ps) > 0
    THEN [ps EXCEPT ![Len(ps)] = <<ps[Len(ps)][1], ps[Len(ps)][2] - padding>>]
    ELSE ps

\* types.js:1214-1222   the raw periods handed to mergeOverlappingPeriods.
BuildPeriods(fsubs, padding) ==
    AdjustLast([k \in 1..Len(fsubs) |-> RawPeriod(fsubs[k], padding)], padding)

ErrNoEntries == [by |-> "extractPeriods", message |-> "No subtitle entries found"]
ErrRegExp == [by |-> "extractPeriods", message |-> "Invalid regular expression"]
ErrNoPeriods ==
    [by |-> "condenseSingleFile",
     message |-> "No valid subtitle periods found after filtering"]
ErrAudio == [by |-> "audioProcessor", message |-> "audio processing failed"]

\* Mutant of extractPeriods: an empty list of surviving entries is an error.
extractPeriodsThrowsOnEmpty(content, cfg) ==
    LET parsed == parseSubtitles(content)
        kept == SelectSeq(parsed, LAMBDA sub : Survives(sub, cfg))
        raw == BuildPeriods(kept, cfg.padding)
        r == mergeOverlappingPeriods(raw)
    IN  IF Len(parsed) = 0 \/ Len(kept) = 0
        THEN [error |-> ErrNoEntries, subs |-> parsed, filteredSubs |-> <<>>,
              raw |-> <<>>, rawAfter |-> <<>>, merged |-> <<>>]
        ELSE [error |-> NoError, subs |-> parsed, filteredSubs |-> kept,
              raw |-> raw, rawAfter |-> r.periods, merged |-> r.merged]

\* Mutant of extractPeriods: an empty parse result is not an error.
extractPeriodsNoCheck(content, cfg) ==
    LET parsed == parseSubtitles(content)
        kept == SelectSeq(parsed, LAMBDA sub : Survives(sub, cfg))
        raw == BuildPeriods(kept, cfg.padding)
        r == mergeOverlappingPeriods(raw)
    IN  [error |-> NoError, subs |-> parsed, filteredSubs |-> kept,
         raw |-> raw, rawAfter |-> r.periods, merged |-> r.merged]

\* types.js:1185-1230   the error thrown (NoError when it returns), the locals
\* subs and filteredSubs, the array `periods` as built (raw) and as the merge
\* leaves it (rawAfter), and the returned list (merged).
extractPeriods(content, cfg) ==
    LET parsed == parseSubtitles(content)
        kept == SelectSeq(parsed, LAMBDA sub : Survives(sub, cfg))
        raw == BuildPeriods(kept, cfg.padding)
        r == mergeOverlappingPeriods(raw)
    IN  IF Len(parsed) = 0
        THEN [error |-> ErrNoEntries, subs |-> parsed, filteredSubs |-> <<>>,
              raw |-> <<>>, rawAfter |-> <<>>, merged |-> <<>>]
        ELSE IF ClassThrows(cfg.filteredCharacters)
                /\ \E k \in 1..Len(parsed) : ReachesClass(parsed[k], cfg)
        THEN [error |-> ErrRegExp, subs |-> parsed, filteredSubs |-> <<>>,
              raw |-> <<>>, rawAfter |-> <<>>, merged |-> <<>>]
        ELSE [error |-> NoError, subs |-> parsed, filteredSubs |-> kept,
              raw |-> raw, rawAfter |-> r.periods, merged |-> r.merged]

\* ------------------------------------------------ createCondensedSubtitles
\* Mutant of Contained: an entry that starts inside the period is taken even
\* when it ends after the period.
ContainedStartOnly(sub, period) == sub.startTime >= period.start

\* Mutant of Contained: the period's boundaries are exclusive.
ContainedStrict(sub, period) ==
    sub.startTime > period.start /\ sub.endTime < period.end

\* types.js:1297
Contained(sub, period) ==
    sub.startTime >= period.start /\ sub.endTime <= period.end

\* Mutant of Adjust: the end is clipped to the period's length.
AdjustClipped(sub, period, offset, n) ==
    [id |-> n + 1,
     startTime |-> sub.startTime - period.start + offset,
     endTime |-> IF sub.endTime - sub.startTime >= period.end - period.start
                 THEN period.end - period.start + offset - 1
                 ELSE sub.endTime - period.start + offset,
     text |-> sub.text]

\* Mutant of Adjust: the entry keeps the id it had in the source.
AdjustKeepId(sub, period, offset, n) ==
    [id |-> sub.id,
     startTime |-> sub.startTime - period.start + offset,
     endTime |-> sub.endTime - period.start + offset,
     text |-> sub.text]

\* types.js:1299-1304   n entries have been emitted so far.
Adjust(sub, period, offset, n) ==
    [id |-> n + 1,
     startTime |-> sub.startTime - period.start + offset,
     endTime |-> sub.endTime - period.start + offset,
     text |-> sub.text]

\* types.js:1296-1307   the inner loop over the original entries from i on.
RECURSIVE CondenseSubs(_, _, _, _, _)
CondenseSubs(period, originalSubs, i, offset, out) ==
    IF i > Len(originalSubs) THEN out
    ELSE IF Contained(originalSubs[i], period)
         THEN CondenseSubs(period, originalSubs, i + 1, offset,
                           Append(out, Adjust(originalSubs[i], period, offset, Len(out))))
         ELSE CondenseSubs(period, originalSubs, i + 1, offset, out)

\* Mutant of NextOffset: the offset restarts at every period.
NextOffsetReset(offset, period) == period.end - period.start

\* types.js:1310-1311
NextOffset(offset, period) == offset + (period.end - period.start)

\* types.js:1295-1312   the outer loop over the periods from k on.
RECURSIVE CondensePeriods(_, _, _, _, _)
CondensePeriods(ps, originalSubs, k, offset, out) ==
    IF k > Len(ps) THEN out
    ELSE CondensePeriods(ps, originalSubs, k + 1, NextOffset(offset, ps[k]),
                         CondenseSubs(ps[k], originalSubs, 1, offset, out))

\* Mutant of createCondensedSubtitles: only the entries that survive the text
\* filters of extractPeriods are candidates.
createCondensedFiltered(ps, content) ==
    CondensePeriods(ps,
                    SelectSeq(parseSubtitles(content), LAMBDA sub : Survives(sub, config)),
                    1, 0, <<>>)

\* types.js:1290-1312   the list condensedSubs that is then serialised.
createCondensedSubtitles(ps, content) ==
    CondensePeriods(ps, parseSubtitles(content), 1, 0, <<>>)

\* ------------------------------------------------ direct calls of the merge
RECURSIVE SeqsUpTo(_, _)
SeqsUpTo(S, n) ==
    IF n = 0 THEN {<<>>}
    ELSE LET shorter == SeqsUpTo(S, n - 1)
         IN  shorter \cup {Append(s, x) : s \in {t \in shorter : Len(t) = n - 1}, x \in S}

RawPairs == (0..MaxRawTime) \X (0..MaxRawTime)

\* The merge scenario of the specification's section 8.
ScenarioRaw == << <<1000, 5000>>, <<4000, 8000>> >>

RawLists == SeqsUpTo(RawPairs, MaxLen) \cup {ScenarioRaw}

InitMerge ==
    /\ pc = "merge"
    /\ rawPeriods \in RawLists
    /\ mergeArg = <<>>
    /\ periods = <<>>
    /\ prevPeriods = <<>>
    /\ mergeCalls = 0
    /\ dialect = "none"
    /\ blocks = <<>>
    /\ subtitleContent = <<>>
    /\ config = NoConfig
    /\ subs = <<>>
    /\ filteredSubs = <<>>
    /\ error = NoError
    /\ condensedSubs = <<>>
    /\ MatchIdle
    /\ TimeIdle
    /\ BatchIdle

\* A caller invokes mergeOverlappingPeriods(rawPeriods).
MergeCall ==
    /\ pc = "merge"
    /\ LET r == mergeOverlappingPeriods(rawPeriods)
       IN  /\ mergeArg' = rawPeriods
           /\ rawPeriods' = r.periods
           /\ prevPeriods' = periods
           /\ periods' = r.merged
    /\ mergeCalls' = mergeCalls + 1
    /\ pc' = "merged"
    /\ UNCHANGED <<dialect, blocks, subtitleContent, config, subs, filteredSubs,
                   error, condensedSubs>>
    /\ UNCHANGED matchVars
    /\ UNCHANGED timeVars
    /\ UNCHANGED batchVars

\* The caller takes the returned periods as [start, end] pairs for another call.
FeedBack ==
    /\ pc = "merged"
    /\ mergeCalls = 1
    /\ rawPeriods' = AsPairs(periods)
    /\ pc' = "merge"
    /\ UNCHANGED <<dialect, blocks, subtitleContent, config, subs, filteredSubs,
                   mergeArg, periods, prevPeriods, mergeCalls, error, condensedSubs>>
    /\ UNCHANGED matchVars
    /\ UNCHANGED timeVars
    /\ UNCHANGED batchVars

NextMerge == MergeCall \/ FeedBack

SpecMerge == InitMerge /\ [][NextMerge]_vars

\* ------------------------------------------------ subtitle texts as inputs
MaxEntries == 2    \* entries of a subtitle text whose times are enumerated
MaxTime == 3       \* largest start / end (ms) of such an entry
MaxFTime == 1      \* the same, in the texts that mix plain and enclosed entries
MaxPad == 1        \* largest enumerated config.padding (ms)
MaxTextLen == 3    \* longest enumerated entry text
MaxBlocks == 3     \* blocks / lines of a text that mixes good and bad entries
MaxCPeriods == 3   \* periods in a direct createCondensedSubtitles call
MaxCEntries == 1   \* entries of the text given to such a call
MaxCTime == 1      \* largest time (ms) in such a call

\* An item is what one block (SRT), cue (VTT) or Dialogue line (ASS) of a
\* text is written from: its shape, index number, times in ms and text.
\*   "ok"        a well-formed entry
\*   "short"     SRT: index and timestamp line only; ASS: nine fields only
\*   "noindex"   SRT: the index line is not a number
\*   "badtime"   SRT: the timestamp is written with "." ; ASS: the start is no time
\*   "notext"    ASS: the text field holds nothing but an override tag
Item(shape, n, s, e, text) ==
    [shape |-> shape, n |-> n, s |-> s, e |-> e, text |-> text]

\* A time in ms as the digits of a timestamp.
StampOf(ms) ==
    Stamp(ms \div 3600000, (ms % 3600000) \div 60000, (ms % 60000) \div 1000, ms % 1000)
AssStampOf(ms) ==
    Stamp(ms \div 3600000, (ms % 3600000) \div 60000, (ms % 60000) \div 1000,
          (ms % 1000) \div 10)

\* A line of text; one that holds only white space is a blank line.
TextOrBlank(t) == IF Trim(t) = <<>> THEN BlankLine ELSE TextLine(t)

SRTLines(it) ==
    CASE it.shape = "ok" ->
            <<NumLine(it.n), TimeLine(StampOf(it.s), StampOf(it.e), ","), TextOrBlank(it.text)>>
      [] it.shape = "short" ->
            <<NumLine(it.n), TimeLine(StampOf(it.s), StampOf(it.e), ",")>>
      [] it.shape = "noindex" ->
            <<TextLine(<<"a">>), TimeLine(StampOf(it.s), StampOf(it.e), ","),
              TextOrBlank(it.text)>>
      [] it.shape = "badtime" ->
            <<NumLine(it.n), TimeLine(StampOf(it.s), StampOf(it.e), "."), TextOrBlank(it.text)>>

VTTLines(it) ==
    <<TimeLine(StampOf(it.s), StampOf(it.e), "."), TextOrBlank(it.text)>>

Field == StrPart(<<"a">>)
ASSLines(it) ==
    LET t1 == IF it.shape = "badtime" THEN StrPart(<<"a">>) ELSE TimePart(AssStampOf(it.s))
        t2 == TimePart(AssStampOf(it.e))
        head == <<StrPart(<<" ", "1">>), t1, t2, Field, Field, Field, Field, Field, Field>>
    IN  CASE it.shape = "short" -> <<DialogueLine(head)>>
          [] it.shape = "notext" -> <<DialogueLine(Append(head, StrPart(<<"{", "i", "}">>)))>>
          [] OTHER -> <<DialogueLine(Append(head, StrPart(it.text)))>>

RECURSIVE WriteItems(_, _)
WriteItems(fmt, items) ==
    IF items = <<>> THEN <<>>
    ELSE (CASE fmt = "srt" -> SRTLines(Head(items))
            [] fmt = "vtt" -> VTTLines(Head(items))
            [] fmt = "ass" -> ASSLines(Head(items)))
         \o (IF fmt = "ass" THEN <<>> ELSE <<BlankLine>>)
         \o WriteItems(fmt, Tail(items))

\* The subtitle text of dialect fmt that holds the items, in order.
WriteText(fmt, items) ==
    (CASE fmt = "srt" -> <<>>
       [] fmt = "vtt" -> <<MarkLine("webvtt"), BlankLine>>
       [] fmt = "ass" -> <<MarkLine("scriptinfo"), MarkLine("v4styles")>>)
    \o WriteItems(fmt, items)

Plain == <<"a">>
Enclosed == <<"(", "a", ")">>

\* Entries with enumerated times, startMs <= endMs: plain text over the wider
\* range of times, plain or enclosed text over the narrower one.
TimeItems ==
    {it \in [shape : {"ok"}, n : {1}, s : 0..MaxTime, e : 0..MaxTime,
             text : {Plain}] : it.s <= it.e}
FilterItems ==
    {it \in [shape : {"ok"}, n : {1}, s : 0..MaxFTime, e : 0..MaxFTime,
             text : {Plain, Enclosed}] : it.s <= it.e}

\* Entry texts: every short text over TextAlphabet, and the texts named in
\* the specification and its neighbours.
TextAlphabet == {"(", ")", "]", "a", " ", "<", ">"}
ScenarioTexts ==
    { <<"(", "l", "a", "u", "g", "h", "i", "n", "g", ")">>,
      <<"[", "m", "u", "s", "i", "c", "]">>,
      <<"H", "e", "l", "l", "o", " ", "(", "a", "s", "i", "d", "e", ")", " ",
        "w", "o", "r", "l", "d">>,
      <<"(", "x", "]">>,
      <<"{", "a", "}">>,
      <<"FW(", "a", "FW)">>,
      <<"FW(", "a", ")">>,
      <<"<", "i", ">", "(", "a", ")", "<", "/", "i", ">">>,
      <<"<", "i", ">", " ", "(", "a", ")", " ", "<", "/", "i", ">">>,
      <<"(", "a", ")", " ", "<", "i", ">">> }
Texts == SeqsUpTo(TextAlphabet, MaxTextLen) \cup ScenarioTexts

\* Items of a text that mixes well-formed and malformed entries.
MixedItems(fmt) ==
    CASE fmt = "srt" ->
            {Item("ok", 1, 0, 10, Plain), Item("ok", 2, 20, 30, <<"b">>),
             Item("short", 1, 0, 10, <<>>), Item("noindex", 1, 0, 10, Plain),
             Item("badtime", 1, 0, 10, Plain)}
      [] fmt = "ass" ->
            {Item("ok", 1, 0, 10, Plain), Item("ok", 2, 20, 30, <<"b">>),
             Item("short", 1, 0, 10, <<>>), Item("badtime", 1, 0, 10, Plain),
             Item("notext", 1, 0, 10, <<>>)}
      [] fmt = "vtt" ->
            {Item("ok", 1, 0, 10, Plain), Item("ok", 2, 20, 30, <<"b">>)}

Cfg(p, fp, fc, ocs) ==
    [padding |-> p, filterParentheses |-> fp, filteredCharacters |-> fc,
     outputCondensedSubtitles |-> ocs]

\* The single-entry scenario of the specification's section 8.
ScenarioItems == <<Item("ok", 1, 2000, 3000, Plain)>>
ScenarioCfg == Cfg(500, TRUE, <<>>, TRUE)

\* Entries as a text may hold them: the end written before, at or after the
\* start (in steps of 10 ms, which every dialect can write).
ReversedItems ==
    {Item("ok", 1, 20, 10, Plain), Item("ok", 2, 10, 10, Plain),
     Item("ok", 3, 0, 30, Plain)}

\* Values of config.filteredCharacters with the characters that are special
\* in a character class, and entry texts made of listed and unlisted ones.
FilterClasses ==
    {<<"a", "-", "c">>, <<"c", "-", "a">>, <<"-">>, <<"a", "-">>, <<"^", "a">>,
     <<"]">>, <<"\\">>, <<"a", "b">>}
FilterTexts ==
    {<<"a">>, <<"b">>, <<"-">>, <<"a", "b">>, <<"a", "-">>, <<"^">>, <<"]">>, <<"\\">>}

\* The inputs of condenseSingleFile: a subtitle text and a config.
Inputs ==
    [fmt : {"srt"},
     items : SeqsUpTo(TimeItems, MaxEntries) \cup SeqsUpTo(FilterItems, MaxEntries),
     cfg : {Cfg(p, TRUE, <<>>, TRUE) : p \in 0..MaxPad}]
    \cup
    [fmt : {"srt"}, items : {<<Item("ok", 1, 1, 2, t)>> : t \in Texts},
     cfg : {Cfg(0, fp, fc, TRUE) : fp \in BOOLEAN, fc \in {<<>>, Plain}}]
    \cup
    UNION {[fmt : {f}, items : SeqsUpTo(MixedItems(f), MaxBlocks),
            cfg : {Cfg(0, TRUE, <<>>, ocs) : ocs \in BOOLEAN}] : f \in {"srt", "ass", "vtt"}}
    \cup
    {[fmt |-> "srt", items |-> ScenarioItems, cfg |-> ScenarioCfg]}
    \cup
    [fmt : {"srt", "vtt", "ass"}, items : SeqsUpTo(ReversedItems, MaxEntries),
     cfg : {Cfg(0, TRUE, <<>>, TRUE)}]
    \cup
    [fmt : {"srt"}, items : {<<Item("ok", 1, 1, 2, t)>> : t \in FilterTexts},
     cfg : {Cfg(0, FALSE, fc, TRUE) : fc \in FilterClasses}]

\* The inputs of a direct createCondensedSubtitles call: a list of periods
\* (start <= end each, in any order, overlapping or not) and a subtitle text.
CPeriods ==
    SeqsUpTo({p \in [start : 0..MaxCTime, end : 0..MaxCTime] : p.start <= p.end},
             MaxCPeriods)
CItems ==
    SeqsUpTo({it \in [shape : {"ok"}, n : {1}, s : 0..MaxCTime, e : 0..MaxCTime,
                      text : {Plain}] : it.s <= it.e},
             MaxCEntries)

Init ==
    /\ \/ \E in \in Inputs :
            /\ pc = "start"
            /\ dialect = in.fmt
            /\ blocks = in.items
            /\ subtitleContent = WriteText(in.fmt, in.items)
            /\ config = in.cfg
            /\ periods = <<>>
       \/ \E ps \in CPeriods, items \in CItems :
            /\ pc = "condense"
            /\ dialect = "srt"
            /\ blocks = items
            /\ subtitleContent = WriteText("srt", items)
            /\ config = NoConfig
            /\ periods = ps
    /\ subs = <<>>
    /\ filteredSubs = <<>>
    /\ mergeArg = <<>>
    /\ rawPeriods = <<>>
    /\ prevPeriods = <<>>
    /\ mergeCalls = 0
    /\ error = NoError
    /\ condensedSubs = <<>>
    /\ MatchIdle
    /\ TimeIdle
    /\ BatchIdle

\* condenser-engine.js:30   periods = extractPeriods(subtitleContent, config);
\* a throw goes to the catch of line 75.
ExtractPeriods ==
    /\ pc = "start"
    /\ LET r == extractPeriods(subtitleContent, config)
       IN  /\ subs' = r.subs
           /\ filteredSubs' = r.filteredSubs
           /\ mergeArg' = r.raw
           /\ rawPeriods' = r.rawAfter
           /\ periods' = r.merged
           /\ error' = r.error
           /\ pc' = IF r.error = NoError THEN "extracted" ELSE "failed"
    /\ UNCHANGED <<dialect, blocks, subtitleContent, config, prevPeriods, mergeCalls,
                   condensedSubs>>
    /\ UNCHANGED matchVars
    /\ UNCHANGED timeVars
    /\ UNCHANGED batchVars

\* condenser-engine.js:32-34
ValidatePeriods ==
    /\ pc = "extracted"
    /\ IF Len(periods) = 0
       THEN error' = ErrNoPeriods /\ pc' = "failed"
       ELSE error' = error /\ pc' = "audio"
    /\ UNCHANGED <<dialect, blocks, subtitleContent, config, subs, filteredSubs,
                   mergeArg, rawPeriods, periods, prevPeriods, mergeCalls, condensedSubs>>
    /\ UNCHANGED matchVars
    /\ UNCHANGED timeVars
    /\ UNCHANGED batchVars

\* condenser-engine.js:36-49   the audio collaborator yields or fails.
ProcessAudio ==
    /\ pc = "audio"
    /\ \/ pc' = "exported" /\ error' = error
       \/ pc' = "failed" /\ error' = ErrAudio
    /\ UNCHANGED <<dialect, blocks, subtitleContent, config, subs, filteredSubs,
                   mergeArg, rawPeriods, periods, prevPeriods, mergeCalls, condensedSubs>>
    /\ UNCHANGED matchVars
    /\ UNCHANGED timeVars
    /\ UNCHANGED batchVars

\* condenser-engine.js:51-73
FinishFile ==
    /\ pc = "exported"
    /\ condensedSubs' = IF config.outputCondensedSubtitles
                        THEN createCondensedSubtitles(periods, subtitleContent)
                        ELSE condensedSubs
    /\ pc' = "done"
    /\ UNCHANGED <<dialect, blocks, subtitleContent, config, subs, filteredSubs,
                   mergeArg, rawPeriods, periods, prevPeriods, mergeCalls, error>>
    /\ UNCHANGED matchVars
    /\ UNCHANGED timeVars
    /\ UNCHANGED batchVars

\* A caller invokes createCondensedSubtitles(periods, subtitleContent, format).
CondenseCall ==
    /\ pc = "condense"
    /\ condensedSubs' = createCondensedSubtitles(periods, subtitleContent)
    /\ pc' = "condensed"
    /\ UNCHANGED <<dialect, blocks, subtitleContent, config, subs, filteredSubs,
                   mergeArg, rawPeriods, periods, prevPeriods, mergeCalls, error>>
    /\ UNCHANGED matchVars
    /\ UNCHANGED timeVars
    /\ UNCHANGED batchVars

Next == ExtractPeriods \/ ValidatePeriods \/ ProcessAudio \/ FinishFile \/ CondenseCall

Spec == Init /\ [][Next]_vars

\* ------------------------------------------------ claims about the merge

\* C1  Merge monotonicity: whatever raw list mergeOverlappingPeriods was given
\* (any length, any order), every two adjacent periods of the list it returned
\* satisfy periods[i].end < periods[i+1].start.
C1_MergeMonotone ==
    pc = "merged" =>
        \A i \in 1..(Len(periods) - 1) : periods[i].end < periods[i + 1].start

\* C1 witness: an input that is not in ascending order was merged into
\* several periods.
C1_Witness ==
    /\ pc = "merged"
    /\ mergeCalls = 1
    /\ Len(periods) >= 2
    /\ \E i \in 1..(Len(mergeArg) - 1) : mergeArg[i][1] > mergeArg[i + 1][1]

\* The positions at which the left-to-right scan starts a new run: the first
\* period, and every period whose start lies after the end of the period
\* just before it in the input.
RunStarts(inp) ==
    IF inp = <<>> THEN {}
    ELSE {1} \cup {j \in 2..Len(inp) : inp[j - 1][2] < inp[j][1]}

KthOf(S, k) == CHOOSE b \in S : Cardinality({x \in S : x < b}) = k - 1

RunLast(inp, b) ==
    LET later == {c \in RunStarts(inp) : c > b}
    IN  IF later = {} THEN Len(inp)
        ELSE (CHOOSE c \in later : \A d \in later : c <= d) - 1

\* C4  The scan goes left to right without sorting; a next period is absorbed
\* while current.end >= next.start (touching counts) and current.end takes
\* next.end; each absorbed run is emitted as one period that starts at the
\* run's first start and ends at the end of the run's last period; the scan
\* resumes at the first unabsorbed period.  [[1000,5000],[4000,8000]] merges
\* to the single period {1000,8000}.
C4_MergeScan ==
    pc = "merged" =>
        /\ Len(periods) = Cardinality(RunStarts(mergeArg))
        /\ \A k \in 1..Len(periods) :
              LET b == KthOf(RunStarts(mergeArg), k)
              IN  periods[k] = [start |-> mergeArg[b][1],
                                end   |-> mergeArg[RunLast(mergeArg, b)][2]]
        /\ (mergeArg = ScenarioRaw => periods = <<[start |-> 1000, end |-> 8000]>>)

\* C4 witness: a touching pair was absorbed into one period and the scan
\* resumed at a third, unabsorbed period.
C4_Witness ==
    /\ pc = "merged"
    /\ Len(mergeArg) = 3
    /\ mergeArg[1][2] = mergeArg[2][1]
    /\ mergeArg[2][2] < mergeArg[3][1]
    /\ Len(periods) = 2

\* C4 witness of the scenario itself.
C4_ScenarioReached ==
    pc = "merged" /\ mergeArg = ScenarioRaw /\ Len(periods) = 1

\* C5  Merge idempotence: mergeOverlappingPeriods applied to a list it returned
\* (taken as [start, end] pairs) returns a list of the same length with the
\* same start and end in every position.
C5_MergeIdempotent ==
    (pc = "merged" /\ mergeCalls = 2) => periods = prevPeriods

\* C5 witness: a result of several periods, one of them the product of an
\* absorption, went through the merge a second time.
C5_Witness ==
    /\ pc = "merged"
    /\ mergeCalls = 2
    /\ Len(periods) >= 2
    /\ Len(periods) < MaxLen
    /\ mergeArg = AsPairs(prevPeriods)

\* ------------------------------------------------ claims about extractPeriods

\* The entry an item stands for in the text: a well-formed block with text.
WellFormed(it) == it.shape = "ok" /\ Trim(it.text) # <<>>

\* The times and texts of the well-formed items, in source order.
RECURSIVE Written(_)
Written(items) ==
    IF items = <<>> THEN <<>>
    ELSE (IF WellFormed(Head(items))
          THEN <<[startTime |-> Head(items).s, endTime |-> Head(items).e,
                  text |-> Trim(Head(items).text)]>>
          ELSE <<>>)
         \o Written(Tail(items))

TimesAndText(entries) ==
    [k \in 1..Len(entries) |->
        [startTime |-> entries[k].startTime, endTime |-> entries[k].endTime,
         text |-> entries[k].text]]

\* extractPeriods has returned its list to condenseSingleFile.
Returned == pc = "extracted"

\* extractPeriods has run, whether it returned or threw.
Extracted == pc \in {"extracted", "failed", "audio", "exported", "done"}

Ascending(entries) ==
    \A k \in 1..(Len(entries) - 1) : entries[k].startTime <= entries[k + 1].startTime

\* C2 as claimed: whenever every parsed entry has startMs <= endMs (and
\* padding >= 0), every returned period has start < end and the periods are
\* in ascending, non-overlapping order.
C2_Original ==
    (Returned /\ \A k \in 1..Len(subs) : subs[k].startTime <= subs[k].endTime)
        => /\ \A k \in 1..Len(periods) : periods[k].start < periods[k].end
           /\ \A k \in 1..(Len(periods) - 1) : periods[k].end < periods[k + 1].start

\* C2 as amended: when the surviving entries are in ascending start order and
\* each has startMs < endMs (padding >= 0), every returned period has
\* start < end and the periods are in ascending, non-overlapping order.
C2_PeriodsOrdered ==
    (/\ Returned
     /\ config.padding >= 0
     /\ Ascending(filteredSubs)
     /\ \A k \in 1..Len(filteredSubs) : filteredSubs[k].startTime < filteredSubs[k].endTime)
        => /\ \A k \in 1..Len(periods) : periods[k].start < periods[k].end
           /\ \A k \in 1..(Len(periods) - 1) : periods[k].end < periods[k + 1].start

\* C2 witness: two surviving entries in ascending order, both of positive
\* length, came out as two periods.
C2_Witness ==
    /\ Returned
    /\ Len(filteredSubs) = 2
    /\ Ascending(filteredSubs)
    /\ \A k \in 1..2 : filteredSubs[k].startTime < filteredSubs[k].endTime
    /\ Len(periods) = 2

C3_ScenarioReached ==
    Returned /\ blocks = ScenarioItems /\ config = ScenarioCfg /\ Len(periods) = 1

\* C6 as claimed: extractPeriods never returns an empty list; when the text
\* parses to at least one entry and no entry survives the filters it fails.
C6_Original == Returned => periods # <<>>

\* C6 as amended: when the text parses to at least one entry and no entry
\* survives the filters, extractPeriods returns the empty list without
\* raising; the failure ("No valid subtitle periods found after filtering")
\* is raised by its caller condenseSingleFile, which never goes on to the
\* audio with zero periods.
C6_EmptyFailsInCaller ==
    /\ (Returned /\ filteredSubs = <<>>) => (periods = <<>> /\ error = NoError)
    /\ pc \in {"audio", "exported", "done"} => periods # <<>>
    /\ (/\ pc = "failed"
        /\ subs # <<>>
        /\ \A k \in 1..Len(subs) : ~Survives(subs[k], config)
        /\ ~ClassThrows(config.filteredCharacters))
          => error = ErrNoPeriods

\* C6 witness: a text with an entry, all of whose entries were filtered out,
\* has failed in condenseSingleFile.
C6_Witness ==
    /\ pc = "failed"
    /\ subs # <<>>
    /\ filteredSubs = <<>>
    /\ error = ErrNoPeriods

\* C7  A malformed entry never aborts the parse: parseSubtitles returns exactly
\* the well-formed entries (times and text) in source order, and
\* extractPeriods raises "No subtitle entries found" if and only if the parse
\* result is empty.
C7_MalformedSkipped ==
    Extracted =>
        /\ TimesAndText(subs) = Written(blocks)
        /\ (error = ErrNoEntries) <=> (subs = <<>>)

\* C7 witness: an SRT text with a malformed block between two well-formed ones.
C7_Witness ==
    /\ Extracted
    /\ dialect = "srt"
    /\ Len(blocks) = 3
    /\ blocks[1].shape = "ok"
    /\ blocks[2].shape # "ok"
    /\ blocks[3].shape = "ok"
    /\ Len(subs) = 2

\* C7 witness: an ASS text whose first Dialogue line has a bad time.
C7_WitnessAss ==
    /\ Extracted
    /\ dialect = "ass"
    /\ Len(blocks) >= 2
    /\ blocks[1].shape = "badtime"
    /\ Len(subs) >= 1

\* C7 witness: a text with malformed blocks only.
C7_WitnessEmpty ==
    /\ pc = "failed"
    /\ error = ErrNoEntries
    /\ Len(blocks) >= 2

\* The first and last character form one of the pairs (), full-width (), [], {}.
EnclosingPairs == {<<"(", ")">>, <<"FW(", "FW)">>, <<"[", "]">>, <<"{", "}">>}
FormsPair(text) == text # <<>> /\ <<text[1], text[Len(text)]>> \in EnclosingPairs

\* C8  With filterParentheses = true an entry (not dropped for an empty text)
\* is dropped if and only if, after markup stripping and trimming, the first
\* and last characters of its text form one of the pairs; with
\* filterParentheses = false no entry is dropped for being enclosed.
C8_Claim ==
    (Returned /\ config.filteredCharacters = <<>>) =>
        filteredSubs =
            SelectSeq(subs,
                      LAMBDA sub :
                          /\ stripXmlTags(sub.text) # <<>>
                          /\ ~(/\ config.filterParentheses
                               /\ FormsPair(Trim(stripXmlTags(sub.text)))))

\* C8, the part the code agrees with: the same without the trimming.
C8_Untrimmed ==
    (Returned /\ config.filteredCharacters = <<>>) =>
        filteredSubs =
            SelectSeq(subs,
                      LAMBDA sub :
                          /\ stripXmlTags(sub.text) # <<>>
                          /\ ~(/\ config.filterParentheses
                               /\ FormsPair(stripXmlTags(sub.text))))

\* The original entries of the text, as createCondensedSubtitles parses them.
Originals == Written(blocks)

\* The condensed list is complete (the call has returned).
Condensed == pc = "condensed" \/ (pc = "done" /\ config.outputCondensedSubtitles)

\* The (period, entry) pairs with the entry inside the period, boundaries
\* included, and the place of a pair in the order of emission.
Inside(ps, orig) ==
    {pr \in (1..Len(ps)) \X (1..Len(orig)) :
        /\ ps[pr[1]].start <= orig[pr[2]].startTime
        /\ orig[pr[2]].endTime <= ps[pr[1]].end}
Before(a, b) == a[1] < b[1] \/ (a[1] = b[1] /\ a[2] < b[2])
Place(inside, pr) == Cardinality({q \in inside : Before(q, pr)}) + 1

\* The sum of the lengths of the periods before the k-th.
RECURSIVE LengthsBefore(_, _)
LengthsBefore(ps, k) ==
    IF k <= 1 THEN 0
    ELSE LengthsBefore(ps, k - 1) + (ps[k - 1].end - ps[k - 1].start)

\* C9  Duration fidelity: the re-timed end minus the re-timed start of every
\* emitted entry equals the original entry's endTime minus startTime.
C9_DurationKept ==
    Condensed =>
        LET orig == Originals
            inside == Inside(periods, orig)
        IN  \A pr \in inside :
                LET n == Place(inside, pr)
                IN  n <= Len(condensedSubs) =>
                        condensedSubs[n].endTime - condensedSubs[n].startTime
                            = orig[pr[2]].endTime - orig[pr[2]].startTime

\* C9 witness: an entry of positive length that fills its period was emitted
\* for the second of two periods, after an offset had accumulated.
C9_Witness ==
    /\ Condensed
    /\ Len(periods) = 2
    /\ periods[1].end > periods[1].start
    /\ \E pr \in Inside(periods, Originals) :
          /\ pr[1] = 2
          /\ Originals[pr[2]].endTime > Originals[pr[2]].startTime
          /\ Originals[pr[2]].startTime = periods[2].start
          /\ Originals[pr[2]].endTime = periods[2].end
          /\ Place(Inside(periods, Originals), pr) <= Len(condensedSubs)

\* C10  An original entry is emitted for a period if and only if
\* period.start <= entry.start and entry.end <= period.end; it is re-timed to
\* entry.start - period.start + offset, offset the sum of the lengths of the
\* preceding periods, and numbered 1, 2, ... in emission order; an entry that
\* straddles a boundary is not emitted; the candidates are all parsed entries,
\* those extractPeriods filtered out included.
C10_Emission ==
    Condensed =>
        LET orig == Originals
            inside == Inside(periods, orig)
        IN  /\ Len(condensedSubs) = Cardinality(inside)
            /\ \A pr \in inside :
                  LET offset == LengthsBefore(periods, pr[1])
                      n == Place(inside, pr)
                  IN  condensedSubs[n] =
                          [id |-> n,
                           startTime |-> orig[pr[2]].startTime - periods[pr[1]].start + offset,
                           endTime |-> orig[pr[2]].endTime - periods[pr[1]].start + offset,
                           text |-> orig[pr[2]].text]

\* C10 witness: an entry was emitted for the third of three periods, after
\* two periods of positive length.
C10_Witness ==
    /\ Condensed
    /\ Len(periods) = 3
    /\ \A k \in 1..2 : periods[k].end > periods[k].start
    /\ \E i \in 1..Len(Originals) : <<3, i>> \in Inside(periods, Originals)
    /\ Len(condensedSubs) >= 3

\* C10 witness: after extractPeriods filtered an entry out, that entry was
\* emitted all the same.
C10_WitnessFiltered ==
    /\ pc = "done"
    /\ config.outputCondensedSubtitles
    /\ Len(filteredSubs) < Len(subs)
    /\ Len(condensedSubs) > Len(filteredSubs)

\* C10 witness: of two entries, one that straddles the end of the only
\* period was left out and the other emitted.
C10_WitnessStraddle ==
    /\ Condensed
    /\ Len(periods) = 1
    /\ Len(Originals) = 2
    /\ Len(condensedSubs) = 1
    /\ \E i \in 1..2 :
          /\ Originals[i].startTime >= periods[1].start
          /\ Originals[i].startTime <= periods[1].end
          /\ Originals[i].endTime > periods[1].end

\* ======================================================================
\* File matching: IntelligentFileMatcher (types.js:426-996) and FileManager
\* (types.js:1370-1628).
\*
\* A file name is a sequence of tokens.  A token is a word, a dot, or one of
\* the shapes the episode patterns look for, with the numbers it is written
\* with (a number is its value and its count of digits, "01" is value 1 on 2
\* digits).  Two neighbouring tokens other than dots are one separator apart.
\* The words of a name carry no digit and do not end in "e", so that no
\* pattern matches across two tokens.
\* ======================================================================

\* JS null and undefined where a number is expected.
Null == 0 - 1
Undefined == 0 - 2

Number(v, d) == [v |-> v, d |-> d]
NoNumber == [v |-> 0, d |-> 0]

Tok(kind, w, a, b) == [kind |-> kind, w |-> w, a |-> a, b |-> b]
Word(w) == Tok("word", w, NoNumber, NoNumber)             \* a
Dot == Tok("dot", ".", NoNumber, NoNumber)                \* .
SE(a, b) == Tok("se", "", a, b)                           \* S01E02
SeasonEpisode(a, b) == Tok("season", "", a, b)            \* Season 1 Episode 2
Cross(a, b) == Tok("x", "", a, b)                         \* 1x02
Bracketed(a) == Tok("br", "", a, NoNumber)                \* [02]
Parenthesised(a) == Tok("par", "", a, NoNumber)           \* (02)
Prefixed(a) == Tok("ep", "", a, NoNumber)                 \* Ep02
Standalone(a) == Tok("num", "", a, NoNumber)              \* 02

\* String.prototype.toLowerCase on the words the model writes.
toLowerCase(w) ==
    CASE w = "A" -> "a"
      [] w = "B" -> "b"
      [] w = "SRT" -> "srt"
      [] w = "MKV" -> "mkv"
      [] OTHER -> w

RECURSIVE LowerName(_)
LowerName(name) ==
    IF name = <<>> THEN <<>>
    ELSE <<IF Head(name).kind = "word" THEN Word(toLowerCase(Head(name).w)) ELSE Head(name)>>
         \o LowerName(Tail(name))

\* filename.lastIndexOf('.'), 1-based; 0 stands for -1.
LastDot(name) ==
    LET dots == {k \in 1..Len(name) : name[k].kind = "dot"}
    IN  IF dots = {} THEN 0 ELSE CHOOSE k \in dots : \A j \in dots : j <= k

\* filename.substring(0, lastDot), or all of it
UpToDot(filename, lastDot) ==
    IF lastDot = 0 THEN filename ELSE SubSeq(filename, 1, lastDot - 1)

\* filename.substring(lastDot).toLowerCase(), or ''
FromDot(filename, lastDot) ==
    IF lastDot = 0 THEN <<>> ELSE LowerName(SubSeq(filename, lastDot, Len(filename)))

\* types.js:767-770 and 1512-1515
getBaseName(filename) == UpToDot(filename, LastDot(filename))

\* types.js:1504-1507
getFileExtension(filename) == FromDot(filename, LastDot(filename))

Ext(w) == <<Dot, Word(w)>>

\* types.js:1372-1376
videoExtensions ==
    {Ext(w) : w \in {"mkv", "mp4", "webm", "mpg", "mp2", "mpeg", "mpe", "mpv",
                     "ogg", "m4p", "m4v", "avi", "wmv", "mov", "qt", "flv",
                     "swf", "mp3", "wav", "flac", "m4a", "aac"}}

\* types.js:1378-1380, in the order a Set is iterated
subtitleExtensions == <<Ext("srt"), Ext("ass"), Ext("ssa"), Ext("vtt")>>

\* types.js:1389-1392
isVideoFile(file) == getFileExtension(file.name) \in videoExtensions

\* types.js:1397-1400
isSubtitleFile(file) ==
    \E k \in 1..Len(subtitleExtensions) : getFileExtension(file.name) = subtitleExtensions[k]

\* allFiles.filter(f => this.isVideoFile(f))
RECURSIVE VideosOf(_)
VideosOf(files) ==
    IF files = <<>> THEN <<>>
    ELSE (IF isVideoFile(Head(files)) THEN <<Head(files)>> ELSE <<>>) \o VideosOf(Tail(files))

\* allFiles.filter(f => this.isSubtitleFile(f))
RECURSIVE SubtitlesOf(_)
SubtitlesOf(files) ==
    IF files = <<>> THEN <<>>
    ELSE (IF isSubtitleFile(Head(files)) THEN <<Head(files)>> ELSE <<>>)
         \o SubtitlesOf(Tail(files))

\* types.js:1483-1499   (no extension is in both sets)
validateFiles(files) ==
    [videoFiles |-> VideosOf(files), subtitleFiles |-> SubtitlesOf(files)]

\* ------------------------------------------------ analyzeFilename

\* types.js:429-445   this.episodePatterns, by rank
PatternRanks == 0..7

NoMatch == [hit |-> FALSE, groups |-> 0, season |-> 0, episode |-> 0]
Match1(a) == [hit |-> TRUE, groups |-> 1, season |-> 0, episode |-> a.v]
Match2(a, b) == [hit |-> TRUE, groups |-> 2, season |-> a.v, episode |-> b.v]

\* /(?:^|[\s\-_\.\[\(])(\d{2,3})(?:[\s\-_\.\]\)]|$)/  and the same with (\d{1}):
\* a number of exactly these digits between separators.
Wide(a) == a.d \in {2, 3}
Single(a) == a.d = 1

\* What pattern i finds inside token t (parseInt of the captured digits).
TokMatch(i, t) ==
    CASE i = 0 /\ t.kind = "se" -> Match2(t.a, t.b)          \* /S(\d+)E(\d+)/i
      [] i = 1 /\ t.kind = "season" -> Match2(t.a, t.b)      \* /Season\s*(\d+).*Episode\s*(\d+)/i
      [] i = 2 /\ t.kind = "x" -> Match2(t.a, t.b)           \* /(\d+)x(\d+)/
      [] i = 3 /\ t.kind = "br" -> Match1(t.a)               \* /\[(\d+)\]/
      [] i = 4 /\ t.kind = "par" -> Match1(t.a)              \* /\((\d+)\)/
      [] i = 5 /\ t.kind \in {"ep", "se", "season"} -> Match1(IF t.kind = "ep" THEN t.a ELSE t.b)
                                                             \* /(?:Episode|Ep|E)[\s\-_]*(\d+)/i
      [] i = 6 /\ t.kind \in {"num", "br", "par"} /\ Wide(t.a) -> Match1(t.a)
      [] i = 6 /\ t.kind = "season" /\ Wide(t.a) -> Match1(t.a)
      [] i = 6 /\ t.kind = "season" /\ ~Wide(t.a) /\ Wide(t.b) -> Match1(t.b)
      [] i = 7 /\ t.kind \in {"num", "br", "par"} /\ Single(t.a) -> Match1(t.a)
      [] i = 7 /\ t.kind = "season" /\ Single(t.a) -> Match1(t.a)
      [] i = 7 /\ t.kind = "season" /\ ~Single(t.a) /\ Single(t.b) -> Match1(t.b)
      [] OTHER -> NoMatch

\* filename.match(pattern): the leftmost match.
RECURSIVE PatternMatch(_, _)
RECURSIVE MatchOrLater(_, _, _)
MatchOrLater(here, i, rest) == IF here.hit THEN here ELSE PatternMatch(i, rest)

PatternMatch(i, filename) ==
    IF filename = <<>> THEN NoMatch
    ELSE MatchOrLater(TokMatch(i, Head(filename)), i, Tail(filename))

\* A confidence is an IEEE double near a multiple of 0.1: tenths/10, or the
\* double just below it (below = 1).  The values the code computes:
\*   1.0 - i*0.1, i = 0..7 :  1.0 0.9 0.8 0.7 0.6 0.5 0.3999999999999999 0.29999999999999993
\*   the same + 0.1        :  1.1 1.0 0.9 0.7999999999999999 0.7 0.6 0.4999999999999999 0.3999999999999999
Conf(tenths, below) == [tenths |-> tenths, below |-> below]

ConfLess(c1, c2) ==
    \/ c1.tenths < c2.tenths
    \/ c1.tenths = c2.tenths /\ c1.below > c2.below

\* types.js:640   1.0 - (i * 0.1)
RankConfidence(i) == Conf(10 - i, IF i >= 6 THEN 1 ELSE 0)

\* types.js:653   confidence += 0.1
PlusTenth(c) == Conf(c.tenths + 1, IF c.tenths = 7 THEN 1 ELSE c.below)

\* types.js:730-747   (a number within 1..999 is never within 1900..2030)
isLikelyEpisodeNumber(num) == ~(num < 1 \/ num > 999)

NoBest == [has |-> FALSE, episode |-> Null, season |-> Null,
           confidence |-> Conf(0, 0), pattern |-> Null]

\* types.js:640-654   1.0 - (i * 0.1), + 0.1 when the number is a likely one
Adjusted(confidence, episode) ==
    IF isLikelyEpisodeNumber(episode) THEN PlusTenth(confidence) ELSE confidence

MatchConfidence(i, m) == Adjusted(RankConfidence(i), m.episode)

\* Mutant of Replaces: an equal confidence takes over, too.
ReplacesOrEqual(confidence, highestConfidence) == ~ConfLess(confidence, highestConfidence)

\* types.js:656   if (confidence > highestConfidence)
Replaces(confidence, highestConfidence) == ConfLess(highestConfidence, confidence)

\* types.js:656-660   the match takes over when its confidence is the higher one
Take(i, m, confidence, best) ==
    IF m.hit /\ Replaces(confidence, best.confidence)
    THEN [has |-> TRUE, episode |-> m.episode,
          season |-> IF m.groups = 2 THEN m.season ELSE Null,
          confidence |-> confidence, pattern |-> i]
    ELSE best

TakeMatch(i, m, best) == Take(i, m, MatchConfidence(i, m), best)

\* types.js:635-661   one turn of the loop over the patterns
TryPattern(i, filename, best) == TakeMatch(i, PatternMatch(i, filename), best)

RECURSIVE EpisodeFrom(_, _, _)
EpisodeFrom(i, filename, best) ==
    IF i > 7 THEN best
    ELSE EpisodeFrom(i + 1, filename, TryPattern(i, filename, best))

\* x || null
OrNull(x) == IF x = Null \/ x = 0 THEN Null ELSE x

\* types.js:664-669   the object returned
EpisodeInfo(best) ==
    [episode |-> OrNull(best.episode), season |-> OrNull(best.season),
     pattern |-> best.pattern, confidence |-> best.confidence]

\* types.js:629-670
extractEpisodeInfo(filename) == EpisodeInfo(EpisodeFrom(0, filename, NoBest))

\* types.js:449-458   this.noiseWords
noiseWords ==
    {"episode", "ep", "season", "series", "vol", "volume", "part", "pt",
     "the", "and", "or", "of", "in", "on", "at", "to", "for", "with",
     "bd", "bluray", "dvd", "web", "webrip", "bdrip", "hdtv",
     "x264", "x265", "h264", "h265", "avc", "hevc",
     "flac", "aac", "mp3", "dts", "ac3",
     "1080p", "720p", "480p", "4k", "uhd", "hd",
     "jpn", "eng", "sub", "dub", "subbed", "dubbed",
     "vcb", "studio", "group", "release"}

\* A title word: letters, then the digits that follow them ("s01").
TitleWord(w, n) == [w |-> w, n |-> n]

\* types.js:683-693   what is left of a token as title words: the episode
\* indicators are removed ("E02" of "S01E02" goes with /(?:episode|ep|e)\s*\d+/gi
\* and leaves "S01"), then noise words and bare numbers are filtered.
TokWords(t) ==
    CASE t.kind = "word" ->
            IF toLowerCase(t.w) \in noiseWords THEN <<>>
            ELSE <<TitleWord(toLowerCase(t.w), NoNumber)>>
      [] t.kind = "se" -> <<TitleWord("s", t.a)>>
      [] OTHER -> <<>>

\* types.js:754-760   brackets become spaces ("[02]" is then a bare "02")
RECURSIVE cleanFilename(_)
cleanFilename(filename) ==
    IF filename = <<>> THEN <<>>
    ELSE <<IF Head(filename).kind = "br" THEN Standalone(Head(filename).a)
           ELSE Head(filename)>>
         \o cleanFilename(Tail(filename))

RECURSIVE extractTitleInfo(_)
extractTitleInfo(cleanName) ==
    IF cleanName = <<>> THEN <<>>
    ELSE TokWords(Head(cleanName)) \o extractTitleInfo(Tail(cleanName))

\* types.js:565-575   the object returned
Analysis(episodeInfo, words) ==
    [titleWords |-> words,
     episode |-> episodeInfo.episode,
     season |-> episodeInfo.season,
     episodePattern |-> episodeInfo.pattern,
     confidence |-> episodeInfo.confidence]

AnalyzeBase(baseName) ==
    Analysis(extractEpisodeInfo(baseName), extractTitleInfo(cleanFilename(baseName)))

\* types.js:555-576
analyzeFilename(filename) == AnalyzeBase(getBaseName(filename))

\* ------------------------------------------------ scores
\* A score is the rational n/d (d > 0): the code's arithmetic on doubles,
\* taken exactly.
Rat(n, d) == [n |-> n, d |-> d]
RatLess(x, y) == x.n * y.d < y.n * x.d
RatEq(x, y) == x.n * y.d = y.n * x.d
RatPlus(x, k) == Rat(x.n + k * x.d, x.d)
RatTimes(x, k) == Rat(x.n * k, x.d)

Range(seq) == {seq[k] : k \in 1..Len(seq)}

\* types.js:710-722
calculateTitleSimilarity(words1, words2) ==
    IF Len(words1) = 0 \/ Len(words2) = 0 THEN Rat(0, 1)
    ELSE Rat(Cardinality(Range(words1) \cap Range(words2)),
             Cardinality(Range(words1) \cup Range(words2)))

\* Math.max(0, Math.min(100, score))
Clamp(score) ==
    IF RatLess(score, Rat(0, 1)) THEN Rat(0, 1)
    ELSE IF RatLess(Rat(100, 1), score) THEN Rat(100, 1)
    ELSE score

\* Mutant of EpisodeGate: a missing episode number on both sides passes.
EpisodeGateNullEqual(videoInfo, subtitleInfo) == videoInfo.episode = subtitleInfo.episode

\* types.js:588-605   both episode numbers are there and equal
EpisodeGate(videoInfo, subtitleInfo) ==
    /\ videoInfo.episode # Null /\ subtitleInfo.episode # Null
    /\ videoInfo.episode = subtitleInfo.episode

\* Mutant of SeasonBonus: a season mismatch costs nothing.
SeasonBonusNoPenalty(videoInfo, subtitleInfo) ==
    IF videoInfo.season # Null /\ subtitleInfo.season # Null
       /\ videoInfo.season = subtitleInfo.season
    THEN 20 ELSE 0

\* types.js:593-599
SeasonBonus(videoInfo, subtitleInfo) ==
    IF videoInfo.season # Null /\ subtitleInfo.season # Null
    THEN IF videoInfo.season = subtitleInfo.season THEN 20 ELSE 0 - 10
    ELSE 0

\* types.js:612-614
PatternBonus(videoInfo, subtitleInfo) ==
    IF videoInfo.episodePattern = subtitleInfo.episodePattern THEN 5 ELSE 0

\* Mutant of ConfidencePenalty: a low confidence takes the whole score.
ConfidencePenaltyWhole(videoInfo, subtitleInfo) ==
    IF ConfLess(videoInfo.confidence, Conf(8, 0)) \/ ConfLess(subtitleInfo.confidence, Conf(8, 0))
    THEN 100 ELSE 0

\* types.js:617-619
ConfidencePenalty(videoInfo, subtitleInfo) ==
    IF ConfLess(videoInfo.confidence, Conf(8, 0)) \/ ConfLess(subtitleInfo.confidence, Conf(8, 0))
    THEN 10 ELSE 0

\* types.js:584-622
calculateMatchScore(videoInfo, subtitleInfo) ==
    IF EpisodeGate(videoInfo, subtitleInfo)
    THEN Clamp(RatPlus(RatTimes(calculateTitleSimilarity(videoInfo.titleWords,
                                                         subtitleInfo.titleWords), 20),
                       50 + SeasonBonus(videoInfo, subtitleInfo)
                          + PatternBonus(videoInfo, subtitleInfo)
                          - ConfidencePenalty(videoInfo, subtitleInfo)))
    ELSE Rat(0, 1)

\* Mutant of getMinimumMatchScore: a higher threshold.
getMinimumMatchScoreHigh == Rat(70, 1)

\* types.js:776-778
getMinimumMatchScore == Rat(40, 1)

\* ------------------------------------------------ the season mapping
\* A JS Map is the sequence of its entries in insertion order.
MapHas(map, key) == \E k \in 1..Len(map) : map[k].key = key
MapGet(map, key) ==
    IF MapHas(map, key) THEN map[CHOOSE k \in 1..Len(map) : map[k].key = key].value
    ELSE Undefined
MapSet(map, key, value) ==
    IF MapHas(map, key)
    THEN [map EXCEPT ![CHOOSE k \in 1..Len(map) : map[k].key = key] =
                        [key |-> key, value |-> value]]
    ELSE Append(map, [key |-> key, value |-> value])

\* files.map(f => this.analyzeFilename(f.name))
RECURSIVE Analyses(_)
Analyses(files) ==
    IF files = <<>> THEN <<>>
    ELSE <<analyzeFilename(Head(files).name)>> \o Analyses(Tail(files))

\* infos.filter(info => info.season !== null)
RECURSIVE Seasonal(_)
Seasonal(infos) ==
    IF infos = <<>> THEN <<>>
    ELSE (IF Head(infos).season # Null THEN <<Head(infos)>> ELSE <<>>) \o Seasonal(Tail(infos))

HasSeasonal(infos) == \E k \in 1..Len(infos) : infos[k].season # Null
HasSequential(infos) ==
    \E k \in 1..Len(infos) : infos[k].season = Null /\ infos[k].episode # Null

\* Mutant of NeedsCrossFormat: the sequential side must have no season at all.
NeedsCrossFormatPure(videoInfos, subtitleInfos) ==
    \/ HasSeasonal(videoInfos) /\ HasSequential(subtitleInfos) /\ ~HasSeasonal(subtitleInfos)
    \/ HasSequential(videoInfos) /\ HasSeasonal(subtitleInfos) /\ ~HasSeasonal(videoInfos)

\* types.js:857-866
NeedsCrossFormat(videoInfos, subtitleInfos) ==
    \/ HasSeasonal(videoInfos) /\ HasSequential(subtitleInfos)
    \/ HasSequential(videoInfos) /\ HasSeasonal(subtitleInfos)

\* types.js:883-889   the seasons that have a group
SeasonsOf(seasonalInfos) == {seasonalInfos[k].season : k \in 1..Len(seasonalInfos)}

\* Mutant of EpisodeCount: the number of files seen for the season.
EpisodeCountFiles(seasonalInfos, season) ==
    Cardinality({k \in 1..Len(seasonalInfos) : seasonalInfos[k].season = season})

\* types.js:895-898   Math.max(...seasonGroups[season]); a null episode counts as 0
EpisodeCount(seasonalInfos, season) ==
    LET eps == {IF seasonalInfos[k].episode = Null THEN 0 ELSE seasonalInfos[k].episode :
                  k \in {j \in 1..Len(seasonalInfos) : seasonalInfos[j].season = season}}
    IN  CHOOSE m \in eps : \A e \in eps : e <= m

\* types.js:893-898   episodeCounts, a season's count under its key
RECURSIVE EpisodeCounts(_, _)
EpisodeCounts(seasonalInfos, sortedSeasons) ==
    IF sortedSeasons = <<>> THEN <<>>
    ELSE <<[key |-> Head(sortedSeasons),
            value |-> EpisodeCount(seasonalInfos, Head(sortedSeasons))]>>
         \o EpisodeCounts(seasonalInfos, Tail(sortedSeasons))

\* Mutant of SortedSeasons: the seasons in descending order.
RECURSIVE SortedSeasonsDescending(_)
SortedSeasonsDescending(seasons) ==
    IF seasons = {} THEN <<>>
    ELSE LET most == CHOOSE s \in seasons : \A t \in seasons : t <= s
         IN  <<most>> \o SortedSeasonsDescending(seasons \ {most})

\* types.js:892   the seasons in ascending order
RECURSIVE SortedSeasons(_)
SortedSeasons(seasons) ==
    IF seasons = {} THEN <<>>
    ELSE LET least == CHOOSE s \in seasons : \A t \in seasons : s <= t
         IN  <<least>> \o SortedSeasons(seasons \ {least})

\* types.js:912   sequentialCounter++
NextCounter(sequentialCounter, episode) == sequentialCounter + 1

\* types.js:909-913   the episodes of one season
RECURSIVE MapEpisodes(_, _, _, _)
MapEpisodes(mapping, season, episode, count) ==
    IF episode > count THEN mapping
    ELSE MapEpisodes(
            [mapping EXCEPT
                !.seasonToSequential = MapSet(@, <<season, episode>>, mapping.sequentialCounter),
                !.sequentialToSeason = MapSet(@, mapping.sequentialCounter,
                                              [season |-> season, episode |-> episode]),
                !.sequentialCounter = NextCounter(@, episode)],
            season, episode + 1, count)

\* types.js:907-914
RECURSIVE MapSeasons(_, _, _)
MapSeasons(mapping, sortedSeasons, episodeCounts) ==
    IF sortedSeasons = <<>> THEN mapping
    ELSE MapSeasons(MapEpisodes(mapping, Head(sortedSeasons), 1,
                                MapGet(episodeCounts, Head(sortedSeasons))),
                    Tail(sortedSeasons), episodeCounts)

\* types.js:900-905   the mapping object
Mapping(direction, built, episodeCounts) ==
    [direction |-> direction,
     seasonToSequential |-> built.seasonToSequential,
     sequentialToSeason |-> built.sequentialToSeason,
     episodeCounts |-> episodeCounts]

NewMaps == [seasonToSequential |-> <<>>, sequentialToSeason |-> <<>>, sequentialCounter |-> 1]

FromCounts(direction, sortedSeasons, episodeCounts) ==
    Mapping(direction, MapSeasons(NewMaps, sortedSeasons, episodeCounts), episodeCounts)

FromSeasons(direction, seasonalInfos, sortedSeasons) ==
    FromCounts(direction, sortedSeasons, EpisodeCounts(seasonalInfos, sortedSeasons))

\* types.js:883-916
FromSeasonal(direction, seasonalInfos) ==
    FromSeasons(direction, seasonalInfos, SortedSeasons(SeasonsOf(seasonalInfos)))

\* types.js:856-881
MappingOf(videoInfos, subtitleInfos) ==
    IF ~NeedsCrossFormat(videoInfos, subtitleInfos) THEN NoMapping
    ELSE IF HasSeasonal(videoInfos) /\ HasSequential(subtitleInfos)
    THEN FromSeasonal("toSequential", Seasonal(videoInfos))
    ELSE FromSeasonal("toSeasonal", Seasonal(subtitleInfos))

\* types.js:852-917
buildSeasonEpisodeMapping(vFiles, sFiles) == MappingOf(Analyses(vFiles), Analyses(sFiles))

\* types.js:931-945   the two episode numbers, as sequential ones
VideoEpisode(videoInfo, mapping) ==
    IF mapping.direction = "toSequential"
    THEN IF videoInfo.season # Null /\ videoInfo.episode # Null
         THEN MapGet(mapping.seasonToSequential, <<videoInfo.season, videoInfo.episode>>)
         ELSE Undefined
    ELSE videoInfo.episode

SubtitleEpisode(subtitleInfo, mapping) ==
    IF mapping.direction = "toSequential" THEN subtitleInfo.episode
    ELSE IF subtitleInfo.season # Null /\ subtitleInfo.episode # Null
         THEN MapGet(mapping.seasonToSequential, <<subtitleInfo.season, subtitleInfo.episode>>)
         ELSE Undefined

\* types.js:948   videoEpisode !== null && subtitleEpisode !== null && they are equal
SameEpisode(videoEpisode, subtitleEpisode) ==
    videoEpisode # Null /\ subtitleEpisode # Null /\ videoEpisode = subtitleEpisode

\* Mutant of calculateCrossFormatScore: the weights of the direct score.
calculateCrossFormatScoreDirect(videoInfo, subtitleInfo, mapping) ==
    IF SameEpisode(VideoEpisode(videoInfo, mapping), SubtitleEpisode(subtitleInfo, mapping))
    THEN Clamp(RatPlus(RatTimes(calculateTitleSimilarity(videoInfo.titleWords,
                                                         subtitleInfo.titleWords), 20),
                       50 + 5))
    ELSE Rat(0, 1)

\* types.js:926-960
calculateCrossFormatScore(videoInfo, subtitleInfo, mapping) ==
    IF SameEpisode(VideoEpisode(videoInfo, mapping), SubtitleEpisode(subtitleInfo, mapping))
    THEN Clamp(RatPlus(RatTimes(calculateTitleSimilarity(videoInfo.titleWords,
                                                         subtitleInfo.titleWords), 15),
                       45 + 5))
    ELSE Rat(0, 1)

\* ------------------------------------------------ findBestSubtitleMatch
Candidate(file, score, matchType) == [file |-> file, score |-> score, matchType |-> matchType]

\* types.js:478-491   the loop over the subtitles
\* types.js:482-490 and 832-840   if (score > 0) matches.push(...)
Pushed(file, score, matchType) ==
    IF RatLess(Rat(0, 1), score) THEN <<Candidate(file, score, matchType)>> ELSE <<>>

RECURSIVE DirectMatches(_, _)
DirectMatches(videoInfo, subs1) ==
    IF subs1 = <<>> THEN <<>>
    ELSE Pushed(Head(subs1),
                calculateMatchScore(videoInfo, analyzeFilename(Head(subs1).name)),
                "direct")
         \o DirectMatches(videoInfo, Tail(subs1))

\* types.js:828-841
RECURSIVE CrossMatches(_, _, _)
CrossMatches(videoInfo, subs1, mapping) ==
    IF subs1 = <<>> THEN <<>>
    ELSE Pushed(Head(subs1),
                calculateCrossFormatScore(videoInfo, analyzeFilename(Head(subs1).name),
                                          mapping),
                "cross-format")
         \o CrossMatches(videoInfo, Tail(subs1), mapping)

\* types.js:822-843   nothing without a mapping
CrossMatchesWith(videoInfo, subs1, mapping) ==
    IF mapping = NoMapping THEN <<>> ELSE CrossMatches(videoInfo, subs1, mapping)

\* types.js:819-843   the matches array and, for the record, the mapping of
\* line 822 they were scored against
CrossFormat(videoInfo, subs1, mapping) ==
    [matches |-> CrossMatchesWith(videoInfo, subs1, mapping), mapping |-> mapping]

\* types.js:817-844
findCrossFormatMatches(videoFile, subs1, allVideoFiles) ==
    CrossFormat(analyzeFilename(videoFile.name), subs1,
                buildSeasonEpisodeMapping(allVideoFiles, subs1))

\* Mutant of TriesCrossFormat: the cross-format matches always join.
TriesCrossFormatAlways(found) == TRUE

\* types.js:494   matches.length === 0 || matches[0].score < this.getMinimumMatchScore()
TriesCrossFormat(found) ==
    Len(found) = 0 \/ RatLess(found[1].score, getMinimumMatchScore)

\* Mutant of InsertByScore: the lowest score comes first.
RECURSIVE InsertByScoreAscending(_, _)
InsertByScoreAscending(sorted, c) ==
    IF sorted = <<>> THEN <<c>>
    ELSE IF RatLess(c.score, Head(sorted).score) THEN <<c>> \o sorted
    ELSE <<Head(sorted)>> \o InsertByScoreAscending(Tail(sorted), c)

\* Array.prototype.sort((a, b) => b.score - a.score): stable, highest first.
RECURSIVE InsertByScore(_, _)
InsertByScore(sorted, c) ==
    IF sorted = <<>> THEN <<c>>
    ELSE IF RatLess(Head(sorted).score, c.score) THEN <<c>> \o sorted
    ELSE <<Head(sorted)>> \o InsertByScore(Tail(sorted), c)

RECURSIVE SortByScore(_, _)
SortByScore(sorted, rest) ==
    IF rest = <<>> THEN sorted
    ELSE SortByScore(InsertByScore(sorted, Head(rest)), Tail(rest))

\* types.js:503   matches.length > 0 && matches[0].score >= this.getMinimumMatchScore()
Accepts(sorted) == Len(sorted) > 0 /\ ~RatLess(sorted[1].score, getMinimumMatchScore)

\* types.js:503-508   the best of the sorted matches, or null
Best(sorted, cross, mapping) ==
    [file |-> IF Accepts(sorted) THEN sorted[1].file ELSE NoFile,
     pool |-> sorted, cross |-> cross, mapping |-> mapping]

\* types.js:495-497   matches.push(...crossFormatMatches)
Merged(direct, crossFormat) ==
    Best(SortByScore(<<>>, direct \o crossFormat.matches), TRUE, crossFormat.mapping)

\* types.js:494-498   the cross-format matches join when the direct ones do not do
WithCrossFormat(direct, videoFile, subs1, allVideoFiles) ==
    IF TriesCrossFormat(direct)
    THEN Merged(direct, findCrossFormatMatches(videoFile, subs1, allVideoFiles))
    ELSE Best(SortByScore(<<>>, direct), FALSE, NoMapping)

\* types.js:469-509   returns the file (or NoFile for null) and, for the record,
\* the sorted matches array, whether findCrossFormatMatches was called and the
\* mapping it built.  allVideoFiles is config.allVideoFiles || [videoFile].
findBestSubtitleMatch(videoFile, subs1, allVideoFiles) ==
    IF Len(subs1) = 0
    THEN [file |-> NoFile, pool |-> <<>>, cross |-> FALSE, mapping |-> NoMapping]
    ELSE WithCrossFormat(DirectMatches(analyzeFilename(videoFile.name), subs1),
                         videoFile, subs1, allVideoFiles)

\* ------------------------------------------------ findMultipleMatches

\* Mutant of Available: the subtitles already used stay available.
AvailableAll(subs1, used) == subs1

\* types.js:532   subtitleFiles.filter(sub => !usedSubtitles.has(sub))
RECURSIVE Available(_, _)
Available(subs1, used) ==
    IF subs1 = <<>> THEN <<>>
    ELSE (IF Head(subs1) \notin used THEN <<Head(subs1)>> ELSE <<>>)
         \o Available(Tail(subs1), used)

\* ------------------------------------------------ FileManager

\* allFiles.find(f => f.name === subtitleName); NoFile for undefined
RECURSIVE Find(_, _)
Find(files, subtitleName) ==
    IF files = <<>> THEN NoFile
    ELSE IF Head(files).name = subtitleName THEN Head(files)
    ELSE Find(Tail(files), subtitleName)

\* types.js:1579-1585 and 1410-1417   the loop over the subtitle extensions
RECURSIVE ExactFrom(_, _, _, _)
ExactFrom(k, baseName, files, suffix) ==
    IF k > Len(subtitleExtensions) THEN NoFile
    ELSE LET matchingFile == Find(files, baseName \o suffix \o subtitleExtensions[k])
         IN  IF matchingFile # NoFile THEN matchingFile
             ELSE ExactFrom(k + 1, baseName, files, suffix)

\* types.js:1576-1588
findExactMatch(videoFile, files, suffix) ==
    ExactFrom(1, getBaseName(videoFile.name), files, suffix)

\* types.js:1420-1439   the matcher, when there are subtitle files at all
IntelligentMatch(videoFile, subs1, videos) ==
    IF Len(subs1) > 0 THEN findBestSubtitleMatch(videoFile, subs1, videos).file ELSE NoFile

OrElse(file, other) == IF file # NoFile THEN file ELSE other

\* Mutant of findSubtitleWithSameName: the matcher is asked first.
findSubtitleHeuristicFirst(videoFile, files, suffix) ==
    OrElse(IntelligentMatch(videoFile, SubtitlesOf(files), VideosOf(files)),
           findExactMatch(videoFile, files, suffix))

\* types.js:1406-1443   (OrElse takes its second argument only when the first is null)
findSubtitleWithSameName(videoFile, files, suffix) ==
    OrElse(findExactMatch(videoFile, files, suffix),
           IntelligentMatch(videoFile, SubtitlesOf(files), VideosOf(files)))

\* ------------------------------------------------ file selections as inputs
MaxEpisode == 2      \* largest number written in an enumerated file name
MaxVideos == 2       \* videos of an enumerated batch
MaxSubtitles == 2    \* subtitles of an enumerated batch

\* The numbers a name is written with: two digits, and "1".
Numbers == {Number(v, 2) : v \in 0..MaxEpisode} \cup {Number(1, 1)}
SeasonNumbers == {Number(v, 2) : v \in 0..2}

\* The episode markers of a name, one per pattern, and none.
Markers ==
    {<<SE(a, b)>> : a \in SeasonNumbers, b \in Numbers}
    \cup {<<SeasonEpisode(a, b)>> : a \in SeasonNumbers, b \in Numbers}
    \cup {<<Cross(a, b)>> : a \in SeasonNumbers, b \in Numbers}
    \cup {<<Bracketed(a)>> : a \in Numbers}
    \cup {<<Parenthesised(a)>> : a \in Numbers}
    \cup {<<Prefixed(a)>> : a \in Numbers}
    \cup {<<Standalone(a)>> : a \in Numbers}
    \cup {<<>>}

\* Names with two markers, an earlier pattern's marker after a later one's;
\* among them "[00](01)" and "1 a 00", where the later pattern's confidence
\* with the bonus equals the earlier one's without it.
TwoMarkers ==
    {<<Standalone(a), Word("a")>> \o m :
        a \in {Number(1, 1), Number(2, 2)},
        m \in {<<SE(Number(1, 2), Number(0, 2))>>, <<Bracketed(Number(0, 2))>>,
               <<Bracketed(Number(1, 2))>>, <<Cross(Number(1, 2), Number(0, 2))>>,
               <<Standalone(Number(0, 2))>>,
               <<Bracketed(Number(0, 2)), Parenthesised(Number(1, 2))>>}}

VideoStems == {<<Word(w)>> \o m : w \in {"a", "B"}, m \in Markers} \cup TwoMarkers
SubtitleMarkers ==
    {m \in Markers : m = <<>> \/ m[1].kind \in {"se", "br", "ep", "num"}}
SubtitleStems == {<<Word(w)>> \o m : w \in {"a", "jpn"}, m \in SubtitleMarkers}

\* One video and one subtitle, of every stem.
PairBatches ==
    {<<v \o Ext("mkv"), s \o Ext("srt")>> :
        v \in VideoStems, s \in SubtitleStems}

Name1(marker) == <<Word("a"), marker>>
TwoDigit(v) == Number(v, 2)

\* Batches for the assignment: same and different episodes, seasonal and sequential.
VideoNames ==
    {Name1(Standalone(TwoDigit(2))) \o Ext("mkv"),
     Name1(SE(TwoDigit(1), TwoDigit(2))) \o Ext("mkv"),
     Name1(SE(TwoDigit(2), TwoDigit(1))) \o Ext("mkv")}

SubtitleNames ==
    {Name1(Standalone(TwoDigit(1))) \o Ext("srt"),
     Name1(Standalone(TwoDigit(2))) \o Ext("srt"),
     <<Word("b"), SE(TwoDigit(1), TwoDigit(1))>> \o Ext("ass")}

NonEmptySeqs(S, n) == SeqsUpTo(S, n) \ {<<>>}

AssignBatches ==
    {vs \o ss : vs \in NonEmptySeqs(VideoNames, MaxVideos),
                ss \in SeqsUpTo(SubtitleNames, MaxSubtitles)}

\* Batches with files named after the video (README.md:69-75), with and
\* without the suffix, next to files the matcher would pick.
ExactVideoNames ==
    {Name1(Standalone(TwoDigit(1))) \o Ext("mkv"),
     Name1(Standalone(TwoDigit(1))) \o Ext("mp4")}

ExactSubtitleNames ==
    {Name1(Standalone(TwoDigit(1))) \o Ext("srt"),
     Name1(Standalone(TwoDigit(1))) \o Ext("SRT"),
     Name1(Standalone(TwoDigit(1))) \o <<Word("en")>> \o Ext("srt")}

ExactBatches ==
    {vs \o ss : vs \in NonEmptySeqs(ExactVideoNames, MaxVideos),
                ss \in SeqsUpTo(ExactSubtitleNames, MaxSubtitles)}

Suffixes == {<<>>, <<Word("en")>>}

\* The batches of the cross-format examples (types.js:421-423): season 1 seen
\* up to episode 13 and the first episode of season 2, against "14"; and two
\* sequential videos against subtitles of two seasons; and two seasons of
\* videos, one with a second title word, against a sequential subtitle.
ScenarioBatches ==
    {<<<<Word("a"), Word("c"), SE(TwoDigit(2), TwoDigit(1))>> \o Ext("mkv"),
       Name1(SE(TwoDigit(1), TwoDigit(1))) \o Ext("mkv"),
       Name1(Standalone(TwoDigit(2))) \o Ext("srt")>>,
     <<Name1(SE(TwoDigit(1), TwoDigit(13))) \o Ext("mkv"),
       Name1(SE(TwoDigit(2), TwoDigit(1))) \o Ext("mkv"),
       Name1(Standalone(TwoDigit(14))) \o Ext("srt")>>,
     <<Name1(Standalone(TwoDigit(2))) \o Ext("mkv"),
       Name1(Standalone(TwoDigit(3))) \o Ext("mkv"),
       <<Word("b"), SE(TwoDigit(1), TwoDigit(2))>> \o Ext("srt"),
       <<Word("b"), SE(TwoDigit(2), TwoDigit(1))>> \o Ext("srt")>>}

\* The selected File objects: each its own object, told apart by id.
RECURSIVE FilesFrom(_, _)
FilesFrom(k, names) ==
    IF names = <<>> THEN <<>>
    ELSE <<[id |-> k, name |-> Head(names)]>> \o FilesFrom(k + 1, Tail(names))

Files(names) == FilesFrom(1, names)

\* What the caller does with the selection: score one video against one
\* subtitle, or match the batch.
Selections ==
    {[files |-> Files(b), suffix |-> <<>>, call |-> "score"] : b \in PairBatches}
    \cup {[files |-> Files(b), suffix |-> <<>>, call |-> "start"] :
            b \in AssignBatches \cup ScenarioBatches}
    \cup {[files |-> Files(b), suffix |-> x, call |-> "start"] :
            b \in ExactBatches, x \in Suffixes}

CoreIdle ==
    /\ pc = "idle"
    /\ dialect = "none"
    /\ blocks = <<>>
    /\ subtitleContent = <<>>
    /\ config = NoConfig
    /\ subs = <<>>
    /\ filteredSubs = <<>>
    /\ mergeArg = <<>>
    /\ rawPeriods = <<>>
    /\ periods = <<>>
    /\ prevPeriods = <<>>
    /\ mergeCalls = 0
    /\ error = NoError
    /\ condensedSubs = <<>>

\* The subtitle files of the selection, as validateFiles sorts them out.
subtitleFiles == validateFiles(allFiles).subtitleFiles

InitMatch ==
    /\ \E sel \in Selections :
          /\ allFiles = sel.files
          /\ videoFiles = validateFiles(sel.files).videoFiles
          /\ subSuffix = sel.suffix
          /\ mpc = sel.call
    /\ scored = NoScore
    /\ seasonMapping = NoMapping
    /\ results = <<>>
    /\ usedSubtitles = {}
    /\ pools = <<>>
    /\ matches = <<>>
    /\ invalidVideos = <<>>
    /\ CoreIdle
    /\ TimeIdle
    /\ BatchIdle

Scored(videoInfo, subtitleInfo) ==
    [called |-> TRUE, videoInfo |-> videoInfo, subtitleInfo |-> subtitleInfo,
     score |-> calculateMatchScore(videoInfo, subtitleInfo)]

\* A caller invokes calculateMatchScore on the analyses of two of the files.
ScoreCall ==
    /\ mpc = "score"
    /\ \E v \in 1..Len(videoFiles), s \in 1..Len(allFiles) :
          /\ isSubtitleFile(allFiles[s])
          /\ scored' = Scored(analyzeFilename(videoFiles[v].name),
                              analyzeFilename(allFiles[s].name))
    /\ mpc' = "scored"
    /\ UNCHANGED <<allFiles, videoFiles, subSuffix, seasonMapping, results,
                   usedSubtitles, pools, matches, invalidVideos>>
    /\ UNCHANGED coreVars
    /\ UNCHANGED timeVars
    /\ UNCHANGED batchVars

\* types.js:518-523   findMultipleMatches(videoFiles, subtitleFiles) up to its loop
StartMatches ==
    /\ mpc = "start"
    /\ seasonMapping' = buildSeasonEpisodeMapping(videoFiles, subtitleFiles)
    /\ mpc' = IF Len(videoFiles) = 0 THEN "matched" ELSE "matching"
    /\ UNCHANGED <<allFiles, videoFiles, subSuffix, scored, results,
                   usedSubtitles, pools, matches, invalidVideos>>
    /\ UNCHANGED coreVars
    /\ UNCHANGED timeVars
    /\ UNCHANGED batchVars

\* types.js:535-544   what one turn of the loop leaves behind
Matched(videoFile, availableSubtitles, found) ==
    /\ results' = Append(results, [videoFile |-> videoFile,
                                   subtitleFile |-> found.file,
                                   matched |-> found.file # NoFile,
                                   crossFormat |-> seasonMapping # NoMapping])
    /\ usedSubtitles' = IF found.file # NoFile THEN usedSubtitles \cup {found.file}
                        ELSE usedSubtitles
    /\ pools' = Append(pools, [available |-> availableSubtitles,
                               pool |-> found.pool, cross |-> found.cross,
                               mapping |-> found.mapping])

MatchAmong(videoFile, availableSubtitles) ==
    Matched(videoFile, availableSubtitles,
            findBestSubtitleMatch(videoFile, availableSubtitles, videoFiles))

\* Mutant of NextVideo: the videos are taken from the last to the first.
NextVideoBackwards(videos, done) == videos[Len(videos) - done]

\* types.js:525   for (const videoFile of videoFiles)
NextVideo(videos, done) == videos[done + 1]

\* types.js:525-545   one turn of the loop, for the next video
MatchVideo ==
    /\ mpc = "matching"
    /\ MatchAmong(NextVideo(videoFiles, Len(results)),
                  Available(subtitleFiles, usedSubtitles))
    /\ mpc' = IF Len(results) + 1 = Len(videoFiles) THEN "matched" ELSE "matching"
    /\ UNCHANGED <<allFiles, videoFiles, subSuffix, scored, seasonMapping,
                   matches, invalidVideos>>
    /\ UNCHANGED coreVars
    /\ UNCHANGED timeVars
    /\ UNCHANGED batchVars

\* Mutant of Invalid: a video without a subtitle is not recorded.
InvalidNever(invalid, videoFile, subtitle) == invalid

\* types.js:1460-1468   if (subtitle) ... else invalidVideos.push(videoFile)
Invalid(invalid, videoFile, subtitle) ==
    IF subtitle = NoFile THEN Append(invalid, videoFile) ELSE invalid

\* types.js:1456-1472   what one turn of the loop leaves behind
Found(videoFile, subtitle) ==
    /\ matches' = Append(matches, subtitle)
    /\ invalidVideos' = Invalid(invalidVideos, videoFile, subtitle)

FindFor(videoFile) == Found(videoFile, findSubtitleWithSameName(videoFile, allFiles, subSuffix))

\* types.js:1450-1478   FileManager.findMatchingSubtitles(videoFiles, allFiles,
\* config), as condenseMultipleFiles calls it (condenser-engine.js:101-105):
\* one turn of its loop, for the next video.
FindMatching ==
    /\ mpc \in {"start", "finding"}
    /\ Len(matches) < Len(videoFiles)
    /\ FindFor(NextVideo(videoFiles, Len(matches)))
    /\ mpc' = IF Len(matches) + 1 = Len(videoFiles) THEN "found" ELSE "finding"
    /\ UNCHANGED <<allFiles, videoFiles, subSuffix, scored, seasonMapping, results,
                   usedSubtitles, pools>>
    /\ UNCHANGED coreVars
    /\ UNCHANGED timeVars
    /\ UNCHANGED batchVars

NextMatch == ScoreCall \/ StartMatches \/ MatchVideo \/ FindMatching

SpecMatch == InitMatch /\ [][NextMatch]_vars

\* ------------------------------------------------ time lines written and read back
MaxHours == 100    \* largest hour count of an enumerated time

DigitChars == <<"0", "1", "2", "3", "4", "5", "6", "7", "8", "9">>
IsDigit(c) == \E d \in 1..10 : DigitChars[d] = c
DigitValue(c) == (CHOOSE d \in 1..10 : DigitChars[d] = c) - 1

\* Number.prototype.toString() of an integer n >= 0
RECURSIVE ToDigits(_)
ToDigits(n) ==
    IF n < 10 THEN <<DigitChars[n + 1]>>
    ELSE Append(ToDigits(n \div 10), DigitChars[(n % 10) + 1])

\* String.prototype.padStart(targetLength, '0')
RECURSIVE padStart(_, _)
padStart(str, targetLength) ==
    IF Len(str) >= targetLength THEN str ELSE padStart(<<"0">> \o str, targetLength)

\* types.js:1347-1354
millisecondsToSRTTime(ms) ==
    padStart(ToDigits(ms \div 3600000), 2) \o <<":">>
    \o padStart(ToDigits((ms % 3600000) \div 60000), 2) \o <<":">>
    \o padStart(ToDigits((ms % 60000) \div 1000), 2) \o <<",">>
    \o padStart(ToDigits(ms % 1000), 3)

\* types.js:1325-1328   `${startTime} --> ${endTime}`: a time line as it is written
WriteTimeLine(startMs, endMs) ==
    millisecondsToSRTTime(startMs) \o <<" ", "-", "-", ">", " ">> \o millisecondsToSRTTime(endMs)

\* (\d{2}):(\d{2}):(\d{2}),(\d{3}) at position p of the text
StampAt(text, p) ==
    /\ p + 11 <= Len(text)
    /\ \A k \in {0, 1, 3, 4, 6, 7, 9, 10, 11} : IsDigit(text[p + k])
    /\ text[p + 2] = ":"
    /\ text[p + 5] = ":"
    /\ text[p + 8] = ","

\* \s* from position p on: the position of the first character that is no space
RECURSIVE SkipSpaces(_, _)
SkipSpaces(text, p) ==
    IF p <= Len(text) /\ text[p] = " " THEN SkipSpaces(text, p + 1) ELSE p

\* \s*-->\s* from position p on: the position behind it, 0 when it is not there
ArrowAt(text, p) ==
    LET q == SkipSpaces(text, p)
    IN  IF q + 2 <= Len(text) /\ text[q] = "-" /\ text[q + 1] = "-" /\ text[q + 2] = ">"
        THEN SkipSpaces(text, q + 3)
        ELSE 0

\* types.js:1053   the whole pattern at position p
TimeLineAt(text, p) ==
    /\ StampAt(text, p)
    /\ ArrowAt(text, p + 12) # 0
    /\ StampAt(text, ArrowAt(text, p + 12))

\* parseInt of the digits captured from position p on
RECURSIVE ParseDigits(_, _, _)
ParseDigits(text, p, n) ==
    IF n = 0 THEN 0
    ELSE ParseDigits(text, p, n - 1) * 10 + DigitValue(text[p + n - 1])

\* types.js:1056-1057   parseTime on the four groups captured at position p
StampTime(text, p) ==
    parseTime(ParseDigits(text, p, 2), ParseDigits(text, p + 3, 2),
              ParseDigits(text, p + 6, 2), ParseDigits(text, p + 9, 3))

\* types.js:1053-1057   String.prototype.match: the leftmost match, and the
\* times parseSRT takes from it
ReadTimeLine(text) ==
    LET ps == {p \in 1..Len(text) : TimeLineAt(text, p)}
    IN  IF ps = {} THEN NoRead
        ELSE LET p == CHOOSE q \in ps : \A r \in ps : q <= r
             IN  [matched |-> TRUE, startTime |-> StampTime(text, p),
                  endTime |-> StampTime(text, ArrowAt(text, p + 12))]

\* The times written: every hour count up to MaxHours, the ends of the ranges
\* of the minutes, seconds and milliseconds.
TimeInputs ==
    {parseTime(h, m, sec, f) : h \in 0..MaxHours, m \in {0, 59}, sec \in {0, 59},
                               f \in {0, 7, 999}}

InitTime ==
    /\ tpc = "start"
    /\ timeStart \in TimeInputs
    /\ \E d \in {0, 1} : timeEnd = timeStart + d
    /\ timeText = <<>>
    /\ timeBack = NoRead
    /\ CoreIdle
    /\ MatchIdle
    /\ BatchIdle

\* types.js:1325-1328   the entry is written as a time line
WriteTime ==
    /\ tpc = "start"
    /\ timeText' = WriteTimeLine(timeStart, timeEnd)
    /\ tpc' = "written"
    /\ UNCHANGED <<timeStart, timeEnd, timeBack>>
    /\ UNCHANGED coreVars
    /\ UNCHANGED matchVars
    /\ UNCHANGED batchVars

\* types.js:1053-1057   the line is read back as parseSRT reads it
ReadTime ==
    /\ tpc = "written"
    /\ timeBack' = ReadTimeLine(timeText)
    /\ tpc' = "read"
    /\ UNCHANGED <<timeStart, timeEnd, timeText>>
    /\ UNCHANGED coreVars
    /\ UNCHANGED matchVars
    /\ UNCHANGED batchVars

NextTime == WriteTime \/ ReadTime

SpecTime == InitTime /\ [][NextTime]_vars

\* ------------------------------------------------ claims about the scorer

\* The Jaccard similarity of two analyses' title tokens as the pair
\* <<|intersection|, |union|>>, <<0, 1>> when either has no token.
TitleSets(info) == {info.titleWords[k] : k \in 1..Len(info.titleWords)}
Jaccard(a, b) ==
    IF TitleSets(a) = {} \/ TitleSets(b) = {} THEN <<0, 1>>
    ELSE <<Cardinality(TitleSets(a) \cap TitleSets(b)),
           Cardinality(TitleSets(a) \cup TitleSets(b))>>

EpisodesAgree(a, b) == a.episode # Null /\ b.episode # Null /\ a.episode = b.episode

\* C11  Scorer gate: a calculateMatchScore call on two analyses of which one
\* has no episode number, or whose episode numbers differ, returned 0, whatever
\* their seasons, title tokens, pattern ranks and confidences.
C11_EpisodeGate ==
    scored.called =>
        (~EpisodesAgree(scored.videoInfo, scored.subtitleInfo) => scored.score.n = 0)

\* C11 happens: a call on two analyses with different episode numbers, the
\* same season, the same pattern and the same, non-empty, title tokens.
C11_Witness ==
    /\ scored.called
    /\ scored.videoInfo.episode # Null /\ scored.subtitleInfo.episode # Null
    /\ scored.videoInfo.episode # scored.subtitleInfo.episode
    /\ scored.videoInfo.season # Null
    /\ scored.videoInfo.season = scored.subtitleInfo.season
    /\ scored.videoInfo.episodePattern = scored.subtitleInfo.episodePattern
    /\ Jaccard(scored.videoInfo, scored.subtitleInfo)[1] >= 1
    /\ scored.score.n = 0

\* C11 happens also with a missing episode number on both sides.
C11_WitnessMissing ==
    /\ scored.called
    /\ scored.videoInfo.episode = Null /\ scored.subtitleInfo.episode = Null
    /\ scored.videoInfo.season # Null
    /\ scored.score.n = 0

\* The terms of the score formula, from the analyses.
SeasonTerm(a, b) ==
    IF a.season = Null \/ b.season = Null THEN 0
    ELSE IF a.season = b.season THEN 20 ELSE 0 - 10
PatternTerm(a, b) == IF a.episodePattern = b.episodePattern THEN 5 ELSE 0
BelowPoint8(c) == c.tenths < 8 \/ (c.tenths = 8 /\ c.below > 0)
ConfidenceTerm(a, b) ==
    IF BelowPoint8(a.confidence) \/ BelowPoint8(b.confidence) THEN 10 ELSE 0

\* (50 + S + P - C) + 20 * J, times J's denominator.
ScoreTimes(a, b) ==
    (50 + SeasonTerm(a, b) + PatternTerm(a, b) - ConfidenceTerm(a, b)) * Jaccard(a, b)[2]
        + 20 * Jaccard(a, b)[1]

ClampTimes(x, d) == IF x < 0 THEN 0 ELSE IF x > 100 * d THEN 100 * d ELSE x

\* C12  For two analyses with equal, present episode numbers the score
\* calculateMatchScore returned is clamp(50 + S + 20*J + P - C, 0, 100): S is
\* +20 for equal seasons, -10 for different ones, 0 if a season is missing; J the
\* Jaccard similarity of the title tokens; P is 5 for the same pattern rank; C
\* is 10 if a confidence is below 0.8.
C12_ScoreFormula ==
    (scored.called /\ EpisodesAgree(scored.videoInfo, scored.subtitleInfo)) =>
        scored.score.n * Jaccard(scored.videoInfo, scored.subtitleInfo)[2]
            = ClampTimes(ScoreTimes(scored.videoInfo, scored.subtitleInfo),
                         Jaccard(scored.videoInfo, scored.subtitleInfo)[2]) * scored.score.d

\* C12 happens: equal episodes, different seasons, title tokens that overlap
\* in part, the same pattern.
C12_Witness ==
    /\ scored.called
    /\ EpisodesAgree(scored.videoInfo, scored.subtitleInfo)
    /\ scored.videoInfo.season # Null /\ scored.subtitleInfo.season # Null
    /\ scored.videoInfo.season # scored.subtitleInfo.season
    /\ Jaccard(scored.videoInfo, scored.subtitleInfo)[1] >= 1
    /\ Jaccard(scored.videoInfo, scored.subtitleInfo)[1]
          < Jaccard(scored.videoInfo, scored.subtitleInfo)[2]
    /\ scored.videoInfo.episodePattern = scored.subtitleInfo.episodePattern

\* C12 happens also with the confidence penalty: equal episodes, a confidence
\* of 0.7999999999999999 (rank 3 with the bonus) on one side.
C12_WitnessPenalty ==
    /\ scored.called
    /\ EpisodesAgree(scored.videoInfo, scored.subtitleInfo)
    /\ scored.videoInfo.confidence = Conf(8, 1)
    /\ ~BelowPoint8(scored.subtitleInfo.confidence)
    /\ scored.score.n = (50 - 10) * scored.score.d + 20 * Jaccard(scored.videoInfo, scored.subtitleInfo)[1]

\* ------------------------------------------------ claims about the best match

AtLeast40(score) == score.n >= 40 * score.d
ScoreAtMost(a, b) == a.n * b.d <= b.n * a.d

\* The candidates findBestSubtitleMatch computed for the k-th video.
CandidatesOf(k) == {pools[k].pool[j] : j \in 1..Len(pools[k].pool)}

\* C13  findBestSubtitleMatch returns a subtitle only if that subtitle's score
\* (direct or cross-format) is at least 40 and no candidate it computed has a
\* higher score; it returns null when no candidate reaches 40.
C13_BestAboveThreshold ==
    \A k \in 1..Len(pools) :
        /\ results[k].subtitleFile # NoFile =>
               \E c \in CandidatesOf(k) :
                   /\ c.file = results[k].subtitleFile
                   /\ AtLeast40(c.score)
                   /\ \A d \in CandidatesOf(k) : ScoreAtMost(d.score, c.score)
        /\ (\A d \in CandidatesOf(k) : ~AtLeast40(d.score)) =>
               results[k].subtitleFile = NoFile

\* C13 happens: a call with two candidates of different scores, the better one
\* later in the list of subtitles, was answered with the better one.
C13_Witness ==
    \E k \in 1..Len(pools) :
        /\ results[k].subtitleFile # NoFile
        /\ Len(pools[k].available) >= 2
        /\ results[k].subtitleFile # pools[k].available[1]
        /\ \E c, d \in CandidatesOf(k) :
               /\ c.file = results[k].subtitleFile
               /\ d.file = pools[k].available[1]
               /\ AtLeast40(d.score)
               /\ ~ScoreAtMost(c.score, d.score)

\* C13 happens also with null: subtitles to choose from, none with a score.
C13_WitnessNull ==
    \E k \in 1..Len(pools) :
        /\ results[k].subtitleFile = NoFile
        /\ Len(pools[k].available) >= 2
        /\ CandidatesOf(k) = {}

\* ------------------------------------------------ claims about findMultipleMatches

EpisodeOf(file) == analyzeFilename(file.name).episode
SeasonOf(file) == analyzeFilename(file.name).season

CarriesSeasons(files) == \E k \in 1..Len(files) : SeasonOf(files[k]) # Null

\* The subtitles with the episode number of a video.
SameEpisodeSubtitles(videoFile, subs1) ==
    {s \in Range(subs1) : EpisodeOf(s) = EpisodeOf(videoFile)}

\* A batch whose videos have distinct episode numbers, each at least 1, each
\* found in exactly one subtitle, and of which one side at most has seasons.
OneSubtitleEach(videos, subs1) ==
    /\ \A i \in 1..Len(videos) : EpisodeOf(videos[i]) # Null /\ EpisodeOf(videos[i]) >= 1
    /\ \A i, j \in 1..Len(videos) : i # j => EpisodeOf(videos[i]) # EpisodeOf(videos[j])
    /\ \A i \in 1..Len(videos) : Cardinality(SameEpisodeSubtitles(videos[i], subs1)) = 1
    /\ ~(CarriesSeasons(videos) /\ CarriesSeasons(subs1))

\* C14  On a batch whose videos have distinct episode numbers (each at least
\* 1), with exactly one subtitle of the same episode number for each video and
\* season information on one side at most, findMultipleMatches pairs every
\* video with the subtitle of its episode number.
C14_EveryVideoPaired ==
    (mpc = "matched" /\ OneSubtitleEach(videoFiles, subtitleFiles)) =>
        \A i \in 1..Len(videoFiles) :
            /\ results[i].videoFile = videoFiles[i]
            /\ results[i].matched
            /\ SameEpisodeSubtitles(videoFiles[i], subtitleFiles) = {results[i].subtitleFile}

\* C14 happens: two videos, one of them with a season, and their two
\* subtitles listed in the other order.
C14_Witness ==
    /\ mpc = "matched"
    /\ OneSubtitleEach(videoFiles, subtitleFiles)
    /\ Len(videoFiles) = 2 /\ Len(subtitleFiles) = 2
    /\ CarriesSeasons(videoFiles)
    /\ results[1].subtitleFile = subtitleFiles[2]
    /\ results[2].subtitleFile = subtitleFiles[1]

\* C15  findMultipleMatches never assigns one subtitle to two videos: the
\* results are one per video and the subtitles in them are distinct files.
C15_NoSubtitleTwice ==
    /\ Len(results) <= Len(videoFiles)
    /\ \A i, j \in 1..Len(results) :
          (i # j /\ results[i].subtitleFile # NoFile) =>
              results[i].subtitleFile # results[j].subtitleFile

\* C15 happens: the second video has the first one's episode number, the one
\* subtitle of that number went to the first.
C15_Witness ==
    /\ mpc = "matched"
    /\ Len(results) = 2
    /\ results[1].subtitleFile # NoFile
    /\ results[2].subtitleFile = NoFile
    /\ EpisodeOf(videoFiles[1]) = EpisodeOf(videoFiles[2])
    /\ SameEpisodeSubtitles(videoFiles[2], subtitleFiles) = {results[1].subtitleFile}

\* The subtitles assigned to the videos before the i-th.
AssignedBefore(i) == {results[j].subtitleFile : j \in 1..(i - 1)} \ {NoFile}

RECURSIVE Without(_, _)
Without(files, taken) ==
    IF files = <<>> THEN <<>>
    ELSE IF Head(files) \in taken THEN Without(Tail(files), taken)
    ELSE <<Head(files)>> \o Without(Tail(files), taken)

\* C16  findMultipleMatches takes the videos in input order: the i-th result
\* is for the i-th video, and its subtitle is what findBestSubtitleMatch
\* answers for that video over the subtitles not assigned to an earlier video.
C16_GreedyInOrder ==
    \A i \in 1..Len(results) :
        /\ results[i].videoFile = videoFiles[i]
        /\ results[i].subtitleFile =
              findBestSubtitleMatch(videoFiles[i],
                                    Without(subtitleFiles, AssignedBefore(i)),
                                    videoFiles).file

\* C16 happens: the second video would have had the first one's subtitle from
\* the whole list, and has another one from what was left.
C16_Witness ==
    /\ mpc = "matched"
    /\ Len(results) = 2
    /\ videoFiles[1] # videoFiles[2]
    /\ results[1].subtitleFile # NoFile
    /\ results[2].subtitleFile # NoFile
    /\ findBestSubtitleMatch(videoFiles[2], subtitleFiles, videoFiles).file
          = results[1].subtitleFile

\* ------------------------------------------------ claims about FileManager

\* The names baseName + subSuffix + extension a subtitle named after the
\* video can have.
ExactNames(videoFile, suffix) ==
    {getBaseName(videoFile.name) \o suffix \o e :
        e \in {Ext("srt"), Ext("ass"), Ext("ssa"), Ext("vtt")}}

HasExactName(videoFile) ==
    \E f \in Range(allFiles) : f.name \in ExactNames(videoFile, subSuffix)

\* What the matcher alone answers for a video of the selection.
HeuristicChoice(videoFile) ==
    findBestSubtitleMatch(videoFile, subtitleFiles, videoFiles).file

\* C17  When the selection has a file named baseName + subSuffix + extension
\* for one of the subtitle extensions .srt, .ass, .ssa, .vtt,
\* findSubtitleWithSameName returns a file with such a name, whatever the
\* matcher would choose; the matcher decides only when there is no such file.
C17_ExactNameFirst ==
    \A i \in 1..Len(matches) :
        IF HasExactName(videoFiles[i])
        THEN /\ matches[i] \in Range(allFiles)
             /\ matches[i].name \in ExactNames(videoFiles[i], subSuffix)
        ELSE matches[i] = HeuristicChoice(videoFiles[i])

\* C17 happens: a file with the exact name is in the selection and the
\* matcher would have chosen another file, which has not that name.
C17_Witness ==
    \E i \in 1..Len(matches) :
        /\ HasExactName(videoFiles[i])
        /\ matches[i].name \in ExactNames(videoFiles[i], subSuffix)
        /\ HeuristicChoice(videoFiles[i]) # NoFile
        /\ HeuristicChoice(videoFiles[i]) # matches[i]
        /\ HeuristicChoice(videoFiles[i]).name \notin ExactNames(videoFiles[i], subSuffix)

\* C17 happens also without an exact name: the matcher's choice is returned.
C17_WitnessHeuristic ==
    \E i \in 1..Len(matches) :
        /\ ~HasExactName(videoFiles[i])
        /\ matches[i] # NoFile
        /\ matches[i] = HeuristicChoice(videoFiles[i])

\* C18  (as claimed) FileManager.findMatchingSubtitles assigns no subtitle to
\* two videos: the non-null entries of matches are distinct files.
C18_Claim ==
    \A i, j \in 1..Len(matches) :
        (i # j /\ matches[i] # NoFile) => matches[i] # matches[j]

\* C18  What findMatchingSubtitles does: every video is answered from the
\* whole selection, whatever the earlier videos were given.
C18_EachFromAllFiles ==
    \A i \in 1..Len(matches) :
        matches[i] = findSubtitleWithSameName(videoFiles[i], allFiles, subSuffix)

\* Two different videos were given the same subtitle, the first one by its
\* name and the second one by the matcher.
C18_SharedSubtitle ==
    /\ mpc = "found"
    /\ Len(matches) = 2
    /\ videoFiles[1].name # videoFiles[2].name
    /\ matches[1] # NoFile
    /\ matches[1] = matches[2]
    /\ HasExactName(videoFiles[1])
    /\ ~HasExactName(videoFiles[2])

\* The videos of the first n that have no subtitle, in their order.
RECURSIVE Unmatched(_)
Unmatched(n) ==
    IF n = 0 THEN <<>>
    ELSE IF matches[n] = NoFile THEN Append(Unmatched(n - 1), videoFiles[n])
    ELSE Unmatched(n - 1)

\* C19  No match is a value, not a failure: findMatchingSubtitles answers
\* with a matches array of the videos' length and order, null at the position
\* of a video for which there is no file named after it and no subtitle that
\* reaches the threshold, a file of the selection elsewhere, and invalidVideos
\* lists exactly the videos whose match is null.
C19_NullIsAValue ==
    /\ Len(matches) <= Len(videoFiles)
    /\ mpc = "found" => Len(matches) = Len(videoFiles)
    /\ \A i \in 1..Len(matches) :
          /\ matches[i] # NoFile => matches[i] \in Range(allFiles)
          /\ matches[i] = NoFile <=>
                (~HasExactName(videoFiles[i]) /\ HeuristicChoice(videoFiles[i]) = NoFile)
    /\ invalidVideos = Unmatched(Len(matches))

\* C19 happens: the first of two videos has no subtitle, the second has one.
C19_Witness ==
    /\ mpc = "found"
    /\ Len(matches) = 2
    /\ matches[1] = NoFile
    /\ matches[2] # NoFile
    /\ Len(subtitleFiles) >= 1
    /\ invalidVideos = <<videoFiles[1]>>

\* ------------------------------------------------ claims about the mapping

\* The sum of the per-season episode counts.
RECURSIVE SumOfCounts(_)
SumOfCounts(counts) ==
    IF counts = <<>> THEN 0 ELSE Head(counts).value + SumOfCounts(Tail(counts))

LexLess(a, b) == a[1] < b[1] \/ (a[1] = b[1] /\ a[2] < b[2])

\* C20  A mapping buildSeasonEpisodeMapping returns is a bijection:
\* sequentialToSeason(seasonToSequential(s, e)) = (s, e) for every mapped (s, e),
\* seasonToSequential(sequentialToSeason(n)) = n for every mapped n, the mapped
\* sequential numbers are exactly 1..N, N the sum of the per-season episode
\* counts, and they increase with (season, episode) in lexicographic order.
C20_MappingBijection ==
    seasonMapping # NoMapping =>
        /\ \A x \in Range(seasonMapping.seasonToSequential) :
              MapGet(seasonMapping.sequentialToSeason, x.value)
                  = [season |-> x.key[1], episode |-> x.key[2]]
        /\ \A y \in Range(seasonMapping.sequentialToSeason) :
              MapGet(seasonMapping.seasonToSequential, <<y.value.season, y.value.episode>>)
                  = y.key
        /\ {y.key : y \in Range(seasonMapping.sequentialToSeason)}
              = 1..SumOfCounts(seasonMapping.episodeCounts)
        /\ {x.value : x \in Range(seasonMapping.seasonToSequential)}
              = 1..SumOfCounts(seasonMapping.episodeCounts)
        /\ \A x, z \in Range(seasonMapping.seasonToSequential) :
              LexLess(x.key, z.key) <=> x.value < z.value

\* C20 happens: a mapping over two seasons, the first with two episodes.
C20_Witness ==
    /\ seasonMapping # NoMapping
    /\ Len(seasonMapping.episodeCounts) = 2
    /\ seasonMapping.episodeCounts[1].value = 2
    /\ Len(seasonMapping.sequentialToSeason) = 3
    /\ MapGet(seasonMapping.seasonToSequential, <<2, 1>>) = 3

\* The files of the side the mapping is built from.
SeasonalSide ==
    IF seasonMapping.direction = "toSequential" THEN videoFiles ELSE subtitleFiles

\* The seasons seen on that side, and the largest episode number seen with a
\* season (0 when it was seen without an episode number only).
ObservedSeasons == {SeasonOf(f) : f \in Range(SeasonalSide)} \ {Null}

ObservedEpisodes(s) ==
    {IF EpisodeOf(f) = Null THEN 0 ELSE EpisodeOf(f) :
        f \in {g \in Range(SeasonalSide) : SeasonOf(g) = s}}

ObservedCount(s) == CHOOSE m \in ObservedEpisodes(s) : \A e \in ObservedEpisodes(s) : e <= m

RECURSIVE SumOver(_)
SumOver(seasons) ==
    IF seasons = {} THEN 0
    ELSE LET s == CHOOSE t \in seasons : TRUE
         IN  ObservedCount(s) + SumOver(seasons \ {s})

\* C21  buildSeasonEpisodeMapping takes the largest episode number seen with
\* a season as that season's count, and maps (s, e), 1 <= e <= count(s), to e
\* plus the counts of all seen seasons smaller than s, and nothing else.
C21_RunningCount ==
    seasonMapping # NoMapping =>
        /\ \A s \in ObservedSeasons :
              /\ MapGet(seasonMapping.episodeCounts, s) = ObservedCount(s)
              /\ \A e \in 1..ObservedCount(s) :
                    MapGet(seasonMapping.seasonToSequential, <<s, e>>)
                        = e + SumOver({t \in ObservedSeasons : t < s})
        /\ Len(seasonMapping.seasonToSequential) = SumOver(ObservedSeasons)

\* C21 happens: season 1 was seen up to episode 13, and S2E01 is mapped to 14.
C21_Witness ==
    /\ seasonMapping # NoMapping
    /\ ObservedSeasons = {1, 2}
    /\ ObservedCount(1) = 13
    /\ MapGet(seasonMapping.seasonToSequential, <<2, 1>>) = 14

\* The episode identity of a file after translation through the batch's
\* mapping: the sequential number of its (season, episode), or its episode
\* number when it has no season.
Translated(file) ==
    IF SeasonOf(file) = Null THEN EpisodeOf(file)
    ELSE MapGet(seasonMapping.seasonToSequential, <<SeasonOf(file), EpisodeOf(file)>>)

\* A pair of which one file has a season and the other has not.
SeasonalSequentialPair(videoFile, subtitleFile) ==
    (SeasonOf(videoFile) = Null) # (SeasonOf(subtitleFile) = Null)

\* C22  (as claimed) Whenever the batch has a mapping, a seasonal and a
\* sequential file are paired only if their episode identities are equal
\* after the seasonal one was translated through the mapping.
C22_Claim ==
    seasonMapping # NoMapping =>
        \A i \in 1..Len(results) :
            (/\ results[i].subtitleFile # NoFile
             /\ SeasonalSequentialPair(results[i].videoFile, results[i].subtitleFile))
            => Translated(results[i].videoFile) = Translated(results[i].subtitleFile)

\* C22  What findBestSubtitleMatch does: a pair found without the cross-format
\* candidates has equal episode numbers as written, whatever the mapping says.
C22_WrittenNumbersFirst ==
    \A i \in 1..Len(results) :
        (results[i].subtitleFile # NoFile /\ ~pools[i].cross)
        => EpisodeOf(results[i].videoFile) = EpisodeOf(results[i].subtitleFile)

\* A video of season 2 was paired with the sequential subtitle of its written
\* episode number, although the mapping gives it a larger sequential number.
C22_UntranslatedPair ==
    /\ seasonMapping # NoMapping
    /\ \E i \in 1..Len(results) :
          /\ results[i].subtitleFile # NoFile
          /\ SeasonOf(results[i].videoFile) = 2
          /\ SeasonOf(results[i].subtitleFile) = Null
          /\ EpisodeOf(results[i].subtitleFile) = EpisodeOf(results[i].videoFile)
          /\ Translated(results[i].videoFile) > EpisodeOf(results[i].subtitleFile)

\* ------------------------------------------------ claims about time lines

\* C23  (as claimed) For every ms >= 0, the time millisecondsToSRTTime writes
\* is read back by the SRT timestamp pattern and parseTime as ms exactly.
C23_Claim ==
    tpc = "read" =>
        timeBack = [matched |-> TRUE, startTime |-> timeStart, endTime |-> timeEnd]

\* C23  What the code does: times below 100 hours are read back exactly.
C23_BelowHundredHours ==
    (tpc = "read" /\ timeEnd < 100 * 3600000) =>
        timeBack = [matched |-> TRUE, startTime |-> timeStart, endTime |-> timeEnd]

\* A time of 100 hours was written with three hour digits and the pattern,
\* which takes two, did not read the line back.
C23_HundredHoursLost ==
    /\ tpc = "read"
    /\ timeStart = 100 * 3600000
    /\ Len(timeText) = 13 + 5 + 13
    /\ timeBack # [matched |-> TRUE, startTime |-> timeStart, endTime |-> timeEnd]

\* ------------------------------------------------ claims about the mapping's activation

\* Every file of the side that has an episode number has no season.
PurelySequential(files) ==
    \A f \in Range(files) : EpisodeOf(f) # Null => SeasonOf(f) = Null

\* Some file of the side has an episode number and no season.
ShowsSequential(files) ==
    \E f \in Range(files) : EpisodeOf(f) # Null /\ SeasonOf(f) = Null

\* The call of buildSeasonEpisodeMapping on the batch has returned.
MappingBuilt == mpc \in {"matching", "matched"}

\* C24  (as claimed) buildSeasonEpisodeMapping returns a mapping only when
\* one side of the batch is purely sequential and the other side carries
\* seasons; for every other batch it returns null.
C24_Original ==
    (MappingBuilt /\ seasonMapping # NoMapping) =>
        \/ PurelySequential(subtitleFiles) /\ CarriesSeasons(videoFiles)
        \/ PurelySequential(videoFiles) /\ CarriesSeasons(subtitleFiles)

\* C24  (amended) buildSeasonEpisodeMapping returns a mapping exactly when
\* some file of one side has a season and some file of the other side has an
\* episode number without a season, whatever else the two sides hold.
C24_PresenceTest ==
    MappingBuilt =>
        (seasonMapping # NoMapping <=>
            \/ CarriesSeasons(videoFiles) /\ ShowsSequential(subtitleFiles)
            \/ ShowsSequential(videoFiles) /\ CarriesSeasons(subtitleFiles))

\* C24 happens: both sides mix seasonal and sequential files and a mapping
\* is returned.
C24_Witness ==
    /\ MappingBuilt
    /\ seasonMapping # NoMapping
    /\ CarriesSeasons(videoFiles) /\ ShowsSequential(videoFiles)
    /\ CarriesSeasons(subtitleFiles) /\ ShowsSequential(subtitleFiles)

\* C24 happens also with null: seasons on both sides and no sequential file.
C24_WitnessNull ==
    /\ MappingBuilt
    /\ seasonMapping = NoMapping
    /\ CarriesSeasons(videoFiles) /\ CarriesSeasons(subtitleFiles)

\* ------------------------------------------------ claims about the cross-format score

\* The episode identity of a file after translation through a mapping: the
\* sequential number of its (season, episode) on the seasonal side, none
\* there without both; the episode number as written on the other side.
IdentityThrough(file, mapping, seasonal) ==
    IF ~seasonal THEN EpisodeOf(file)
    ELSE IF SeasonOf(file) = Null \/ EpisodeOf(file) = Null THEN Null
    ELSE MapGet(mapping.seasonToSequential, <<SeasonOf(file), EpisodeOf(file)>>)

SameIdentity(videoFile, subtitleFile, mapping) ==
    /\ IdentityThrough(videoFile, mapping, mapping.direction = "toSequential") \in Nat
    /\ IdentityThrough(videoFile, mapping, mapping.direction = "toSequential")
          = IdentityThrough(subtitleFile, mapping, mapping.direction = "toSeasonal")

\* The cross-format candidates computed for the k-th video and a subtitle.
CrossCandidates(k, file) ==
    {c \in CandidatesOf(k) : c.matchType = "cross-format" /\ c.file = file}

\* score = 45 + 15 * J + 5 for the title tokens of the two files.
IsCrossScore(score, videoFile, subtitleFile) ==
    score.n * Jaccard(analyzeFilename(videoFile.name),
                      analyzeFilename(subtitleFile.name))[2]
        = score.d * ((45 + 5) * Jaccard(analyzeFilename(videoFile.name),
                                        analyzeFilename(subtitleFile.name))[2]
                     + 15 * Jaccard(analyzeFilename(videoFile.name),
                                    analyzeFilename(subtitleFile.name))[1])

\* C25  calculateCrossFormatScore returns 45 + 15*J + 5 for a video and a
\* subtitle whose episode identities are equal after translation through the
\* mapping, and 0 (no candidate) otherwise; every cross-format score that is
\* not 0 lies in [50, 65], at or above the threshold of 40.
C25_CrossFormatScore ==
    \A k \in 1..Len(pools) :
        (pools[k].cross /\ pools[k].mapping # NoMapping) =>
            \A j \in 1..Len(pools[k].available) :
                IF SameIdentity(results[k].videoFile, pools[k].available[j],
                                pools[k].mapping)
                THEN /\ CrossCandidates(k, pools[k].available[j]) # {}
                     /\ \A c \in CrossCandidates(k, pools[k].available[j]) :
                           /\ IsCrossScore(c.score, results[k].videoFile, c.file)
                           /\ 50 * c.score.d <= c.score.n
                           /\ c.score.n <= 65 * c.score.d
                           /\ AtLeast40(c.score)
                ELSE CrossCandidates(k, pools[k].available[j]) = {}

\* C25 happens: a cross-format score strictly between 50 and 65, for title
\* tokens that overlap in part.
C25_Witness ==
    \E k \in 1..Len(pools) :
        /\ pools[k].cross
        /\ \E c \in CandidatesOf(k) :
              /\ c.matchType = "cross-format"
              /\ 50 * c.score.d < c.score.n
              /\ c.score.n < 65 * c.score.d

\* C25 happens also with 0: a mapping, a subtitle with an episode number of
\* another identity, and no cross-format candidate for it.
C25_WitnessZero ==
    \E k \in 1..Len(pools) :
        /\ pools[k].cross /\ pools[k].mapping # NoMapping
        /\ \E j \in 1..Len(pools[k].available) :
              /\ EpisodeOf(pools[k].available[j]) # Null
              /\ ~SameIdentity(results[k].videoFile, pools[k].available[j],
                               pools[k].mapping)
              /\ CrossCandidates(k, pools[k].available[j]) = {}

\* ------------------------------------------------ claims about the cross-format trigger

\* The direct score of a video and a subtitle is at least 40.
DirectAtLeast40(videoFile, subtitleFile) ==
    /\ EpisodesAgree(analyzeFilename(videoFile.name), analyzeFilename(subtitleFile.name))
    /\ ClampTimes(ScoreTimes(analyzeFilename(videoFile.name),
                             analyzeFilename(subtitleFile.name)),
                  Jaccard(analyzeFilename(videoFile.name),
                          analyzeFilename(subtitleFile.name))[2])
          >= 40 * Jaccard(analyzeFilename(videoFile.name),
                          analyzeFilename(subtitleFile.name))[2]

SomeDirectAtLeast40(k) ==
    \E j \in 1..Len(pools[k].available) :
        DirectAtLeast40(results[k].videoFile, pools[k].available[j])

\* C26  In a findBestSubtitleMatch call with subtitles to choose from, the
\* cross-format candidates are computed and merged exactly when no available
\* subtitle has a direct score of at least 40; when one has, wherever it stands
\* in the list, the pool holds no cross-format candidate.
C26_CrossOnlyBelowThreshold ==
    \A k \in 1..Len(pools) :
        Len(pools[k].available) > 0 =>
            /\ pools[k].cross <=> ~SomeDirectAtLeast40(k)
            /\ SomeDirectAtLeast40(k) =>
                   \A c \in CandidatesOf(k) : c.matchType = "direct"

\* C26 happens: the only subtitle with a direct score of at least 40 is not
\* the first of the list, the batch has a mapping, and no cross-format
\* candidate was computed.
C26_Witness ==
    \E k \in 1..Len(pools) :
        /\ Len(pools[k].available) >= 2
        /\ ~DirectAtLeast40(results[k].videoFile, pools[k].available[1])
        /\ SomeDirectAtLeast40(k)
        /\ seasonMapping # NoMapping
        /\ ~pools[k].cross

\* C26 happens also the other way: no direct candidate, and a cross-format
\* candidate in the pool.
C26_WitnessCross ==
    \E k \in 1..Len(pools) :
        /\ ~SomeDirectAtLeast40(k)
        /\ pools[k].cross
        /\ \E c \in CandidatesOf(k) : c.matchType = "cross-format"

\* ------------------------------------------------ claims about the mapping of the run

\* C27  (as claimed) Within one findMultipleMatches run every video is
\* cross-format-scored against the mapping built once from the full lists of
\* the batch, whichever subtitles earlier videos have taken.
C27_Claim ==
    \A k \in 1..Len(pools) :
        pools[k].cross => pools[k].mapping = seasonMapping

\* C27  What the code does: findCrossFormatMatches builds its own mapping, from
\* all videos and the subtitles still available to this video.
C27_RebuiltFromAvailable ==
    \A k \in 1..Len(pools) :
        (pools[k].cross /\ Len(pools[k].available) > 0) =>
            pools[k].mapping = buildSeasonEpisodeMapping(videoFiles, pools[k].available)

\* A video is left without subtitle although an available subtitle has its
\* identity under the mapping of the batch: the mapping rebuilt without the
\* subtitle an earlier video took gives that subtitle another number.
C27_LostToRebuilding ==
    \E k \in 1..Len(pools) :
        /\ k >= 2
        /\ seasonMapping # NoMapping
        /\ pools[k].cross /\ pools[k].mapping # NoMapping
        /\ pools[k].mapping # seasonMapping
        /\ results[k].subtitleFile = NoFile
        /\ \E j \in 1..Len(pools[k].available) :
              /\ SameIdentity(results[k].videoFile, pools[k].available[j], seasonMapping)
              /\ ~SameIdentity(results[k].videoFile, pools[k].available[j],
                               pools[k].mapping)

\* ------------------------------------------------ claims about the pattern cascade

\* The patterns that match a name, and the first of them.
MatchingRanks(filename) == {i \in PatternRanks : PatternMatch(i, filename).hit}
FirstRank(filename) ==
    CHOOSE i \in MatchingRanks(filename) : \A j \in MatchingRanks(filename) : i <= j
FirstMatch(filename) == PatternMatch(FirstRank(filename), filename)

\* The analysis reports what the first matching pattern captured (a number 0
\* is reported as none), or nothing when no pattern matches.
ReportsFirst(info, filename) ==
    IF MatchingRanks(filename) = {}
    THEN info.episodePattern = Null /\ info.episode = Null /\ info.season = Null
    ELSE /\ info.episodePattern = FirstRank(filename)
         /\ info.episode = (IF FirstMatch(filename).episode = 0 THEN Null
                            ELSE FirstMatch(filename).episode)
         /\ info.season = (IF FirstMatch(filename).groups = 2
                              /\ FirstMatch(filename).season # 0
                           THEN FirstMatch(filename).season ELSE Null)

\* C28  extractEpisodeInfo reports the episode, season and rank of the first
\* pattern of the cascade that matches the name: no later pattern takes over,
\* whichever of the earlier and the later match gets the +0.1 of a likely
\* episode number.
C28_FirstPatternWins ==
    scored.called =>
        ReportsFirst(scored.videoInfo, getBaseName(videoFiles[1].name))

\* C28 happens: two patterns match, the later one with the bonus and the
\* first one without, so that their confidences are equal, and the first one
\* is reported.
C28_Witness ==
    /\ scored.called
    /\ \E i, j \in MatchingRanks(getBaseName(videoFiles[1].name)) :
          /\ i = FirstRank(getBaseName(videoFiles[1].name))
          /\ i < j
          /\ ~isLikelyEpisodeNumber(PatternMatch(i, getBaseName(videoFiles[1].name)).episode)
          /\ isLikelyEpisodeNumber(PatternMatch(j, getBaseName(videoFiles[1].name)).episode)
          /\ MatchConfidence(j, PatternMatch(j, getBaseName(videoFiles[1].name)))
                = MatchConfidence(i, PatternMatch(i, getBaseName(videoFiles[1].name)))
          /\ scored.videoInfo.episodePattern = i

\* ------------------------------------------------ claims about the confidence

\* 0 <= c <= limit, for confidences as the doubles they are.
ConfWithin(c, limit) == ~ConfLess(c, Conf(0, 0)) /\ ~ConfLess(limit, c)

\* C29  (as claimed) The confidence of every analysis analyzeFilename returns
\* lies in [0, 1], for every pattern rank and both outcomes of the test for a
\* likely episode number.
C29_Claim ==
    scored.called =>
        /\ ConfWithin(scored.videoInfo.confidence, Conf(10, 0))
        /\ ConfWithin(scored.subtitleInfo.confidence, Conf(10, 0))

\* C29  What the code computes: a confidence within [0, 1.1].
C29_AtMostOnePointOne ==
    scored.called =>
        /\ ConfWithin(scored.videoInfo.confidence, Conf(11, 0))
        /\ ConfWithin(scored.subtitleInfo.confidence, Conf(11, 0))

\* A name of rank 0 with a likely episode number has the confidence 1.1.
C29_AboveOne ==
    /\ scored.called
    /\ scored.videoInfo.episodePattern = 0
    /\ scored.videoInfo.episode # Null
    /\ scored.videoInfo.confidence = Conf(11, 0)

\* ------------------------------------------------ claims about the entries' indices

\* The index numbers written in the well-formed items of a text, in order.
RECURSIVE WrittenIndices(_)
WrittenIndices(items) ==
    IF items = <<>> THEN <<>>
    ELSE (IF WellFormed(Head(items)) THEN <<Head(items).n>> ELSE <<>>)
         \o WrittenIndices(Tail(items))

IndicesOf(entries) == [k \in 1..Len(entries) |-> entries[k].id]

\* C30  (as claimed) For each of the three parsers the k-th returned entry
\* carries the index k, whatever index numbers the text holds and however
\* many entries were skipped.
C30_Original ==
    Extracted => \A k \in 1..Len(subs) : subs[k].id = k

\* C30  (amended) The k-th entry parseVTT and parseASS return carries the
\* index k, however many entries were skipped; the k-th entry parseSRT
\* returns carries the index number written in its block.
C30_IndicesByDialect ==
    Extracted =>
        /\ dialect \in {"vtt", "ass"} => \A k \in 1..Len(subs) : subs[k].id = k
        /\ dialect = "srt" => IndicesOf(subs) = WrittenIndices(blocks)

\* C30 happens: an ASS text with a skipped line between two well-formed
\* ones; the entry after the skipped line carries the index 2.
C30_Witness ==
    /\ Extracted
    /\ dialect = "ass"
    /\ Len(blocks) = 3
    /\ WellFormed(blocks[1]) /\ ~WellFormed(blocks[2]) /\ WellFormed(blocks[3])
    /\ Len(subs) = 2
    /\ subs[2].id = 2

\* C30 happens also for SRT: the block written with index 2 comes first and
\* its entry carries the index 2.
C30_WitnessSrt ==
    /\ Extracted
    /\ dialect = "srt"
    /\ Len(subs) = 2
    /\ subs[1].id = 2
    /\ subs[2].id = 1

\* C30 happens also for VTT: two cues, indices 1 and 2.
C30_WitnessVtt ==
    /\ Extracted
    /\ dialect = "vtt"
    /\ Len(subs) = 2
    /\ subs[2].id = 2

\* ------------------------------------------------ claims about the entries' times

\* C31  (as claimed) Every entry parseSubtitles returns has startTime <=
\* endTime, for every dialect and every text.
C31_Claim ==
    Extracted => \A k \in 1..Len(subs) : subs[k].startTime <= subs[k].endTime

\* C31  What the parsers do: the times of an entry are the two times written
\* in the text, in whatever order they are written.
C31_TimesAsWritten ==
    Extracted => TimesAndText(subs) = Written(blocks)

\* An entry written with its end before its start is returned that way.
C31_EndBeforeStart ==
    /\ Extracted
    /\ dialect \in {"vtt", "ass"}
    /\ \E k \in 1..Len(subs) : subs[k].startTime = 20 /\ subs[k].endTime = 10

\* ------------------------------------------------ claims about the character filter

\* The characters that occur in filteredCharacters.
Listed(fc) == {fc[k] : k \in 1..Len(fc)}

\* An entry is kept when its text, without tags, is not empty, is not an
\* enclosed one the parenthesis filter drops, and has a character that is not
\* listed.
KeptAsListed(sub, cfg) ==
    /\ Len(stripXmlTags(sub.text)) > 0
    /\ ~(cfg.filterParentheses /\ isEnclosedInParentheses(stripXmlTags(sub.text)))
    /\ \E k \in 1..Len(stripXmlTags(sub.text)) :
          stripXmlTags(sub.text)[k] \notin Listed(cfg.filteredCharacters)

RECURSIVE KeepListed(_, _)
KeepListed(entries, cfg) ==
    IF entries = <<>> THEN <<>>
    ELSE (IF KeptAsListed(Head(entries), cfg) THEN <<Head(entries)>> ELSE <<>>)
         \o KeepListed(Tail(entries), cfg)

\* A "-" stands between two characters of filteredCharacters.
HasRange(fc) == \E k \in 2..(Len(fc) - 1) : fc[k] = "-"

\* C32  (as claimed) The character filter of extractPeriods removes exactly
\* the characters listed in filteredCharacters, whatever they are: the filter
\* never fails, and an entry that reaches it is dropped exactly when all of its
\* characters are listed.
C32_Claim ==
    Extracted =>
        /\ error # ErrRegExp
        /\ (subs # <<>> /\ error = NoError) => filteredSubs = KeepListed(subs, config)

\* C32  What the code does: the same, as long as no "-" stands between two
\* characters of filteredCharacters (escapeRegExp leaves "-" as it is, and
\* there it makes a range).
C32_ExactWithoutRange ==
    (Extracted /\ ~HasRange(config.filteredCharacters)) =>
        /\ error # ErrRegExp
        /\ (subs # <<>> /\ error \in {NoError, ErrNoPeriods, ErrAudio}) =>
               filteredSubs = KeepListed(subs, config)

\* With "a-c" the entry "b" is dropped, although "b" is not listed.
C32_RangeRemovesUnlisted ==
    /\ Extracted
    /\ config.filteredCharacters = <<"a", "-", "c">>
    /\ Len(subs) = 1 /\ subs[1].text = <<"b">>
    /\ filteredSubs = <<>>

\* With "a-c" the entry "-" is kept, although "-" is listed.
C32_HyphenKept ==
    /\ Extracted
    /\ config.filteredCharacters = <<"a", "-", "c">>
    /\ Len(subs) = 1 /\ subs[1].text = <<"-">>
    /\ Len(filteredSubs) = 1

\* With "c-a" the RegExp constructor throws.
C32_RangeThrows ==
    /\ pc = "failed"
    /\ config.filteredCharacters = <<"c", "-", "a">>
    /\ error = ErrRegExp

\* ------------------------------------------------ claims about the merge's argument

\* C33  (as claimed) mergeOverlappingPeriods leaves the list it is given
\* unchanged: the same pairs, with the same starts and ends, after the call as
\* before.
C33_Claim ==
    pc = "merged" => rawPeriods = mergeArg

\* C33  What the code does: the list keeps its length and every start; the end
\* of a pair is either the one it had or the end of a later pair of the list.
C33_StartsKept ==
    pc = "merged" =>
        /\ Len(rawPeriods) = Len(mergeArg)
        /\ \A k \in 1..Len(mergeArg) :
              /\ rawPeriods[k][1] = mergeArg[k][1]
              /\ \/ rawPeriods[k][2] = mergeArg[k][2]
                 \/ \E j \in (k + 1)..Len(mergeArg) : rawPeriods[k][2] = mergeArg[j][2]

\* The call on [1000,5000], [4000,8000] leaves its argument as
\* [1000,8000], [4000,8000].
C33_ArgumentWritten ==
    /\ pc = "merged"
    /\ mergeArg = << <<1000, 5000>>, <<4000, 8000>> >>
    /\ rawPeriods = << <<1000, 8000>>, <<4000, 8000>> >>

\* ------------------------------------------------ claims about the entries' coverage

\* The surviving entries are in ascending start order, each with startTime <=
\* endTime, and the padding is not negative.
OrderedEntries ==
    /\ Returned
    /\ config.padding >= 0
    /\ Ascending(filteredSubs)
    /\ \A k \in 1..Len(filteredSubs) : filteredSubs[k].startTime <= filteredSubs[k].endTime

InsideAPeriod(from, to) ==
    \E k \in 1..Len(periods) : periods[k].start <= from /\ to <= periods[k].end

\* C34  (as claimed) For surviving entries in ascending start order and a
\* padding >= 0, the range [startTime, endTime] of every surviving entry lies
\* inside one of the periods extractPeriods returns.
C34_Claim ==
    OrderedEntries =>
        \A k \in 1..Len(filteredSubs) :
            InsideAPeriod(filteredSubs[k].startTime, filteredSubs[k].endTime)

\* C34  What the code keeps: the start of every surviving entry lies inside a
\* returned period, and so does the whole range of the last one.
C34_StartsCovered ==
    OrderedEntries =>
        /\ \A k \in 1..Len(filteredSubs) :
              InsideAPeriod(filteredSubs[k].startTime, filteredSubs[k].startTime)
        /\ filteredSubs # <<>> =>
              InsideAPeriod(filteredSubs[Len(filteredSubs)].startTime,
                            filteredSubs[Len(filteredSubs)].endTime)

\* An entry with a shorter one nested inside it loses its end: the one
\* period returned ends where the nested entry ends.
C34_NestedCut ==
    /\ OrderedEntries
    /\ Len(filteredSubs) = 2
    /\ filteredSubs[2].endTime < filteredSubs[1].endTime
    /\ Len(periods) = 1
    /\ periods[1].end = filteredSubs[2].endTime
    /\ periods[1].end < filteredSubs[1].endTime

\* ------------------------------------------------ claims about the condensed times

\* createCondensedSubtitles has returned, on the periods extractPeriods gave.
CondensedFromExtracted == pc = "done" /\ config.outputCondensedSubtitles

\* The entry emitted for period k lies inside that period's slice of the
\* condensed timeline.
InSlice(entry, ps, k) ==
    /\ LengthsBefore(ps, k) <= entry.startTime
    /\ entry.startTime <= entry.endTime
    /\ entry.endTime <= LengthsBefore(ps, k) + (ps[k].end - ps[k].start)

AllInSlices(ps, orig) ==
    \A pr \in Inside(ps, orig) :
        InSlice(condensedSubs[Place(Inside(ps, orig), pr)], ps, pr[1])

\* C35  (as claimed) Given the periods extractPeriods produced, every entry
\* createCondensedSubtitles emits lies inside its own period's slice,
\* offset_k <= newStart <= newEnd <= offset_k + length_k, and so between 0 and
\* the total condensed duration.
C35_Claim ==
    CondensedFromExtracted =>
        /\ AllInSlices(periods, Originals)
        /\ \A n \in 1..Len(condensedSubs) :
              /\ 0 <= condensedSubs[n].startTime
              /\ 0 <= condensedSubs[n].endTime
              /\ condensedSubs[n].endTime <= LengthsBefore(periods, Len(periods) + 1)

\* C35  What the code keeps: the same, for a text all of whose entries are
\* written with startTime <= endTime and whose surviving entries stand in
\* ascending start order, with a padding >= 0.
C35_SlicesOfOrderedTimes ==
    (/\ CondensedFromExtracted
     /\ config.padding >= 0
     /\ Ascending(filteredSubs)
     /\ \A k \in 1..Len(subs) : subs[k].startTime <= subs[k].endTime) =>
        /\ AllInSlices(periods, Originals)
        /\ \A n \in 1..Len(condensedSubs) :
              /\ 0 <= condensedSubs[n].startTime
              /\ 0 <= condensedSubs[n].endTime
              /\ condensedSubs[n].endTime <= LengthsBefore(periods, Len(periods) + 1)

\* The entry written from 20 to 10 ms is emitted with a negative end.
C35_NegativeTime ==
    /\ CondensedFromExtracted
    /\ Len(subs) = 1
    /\ subs[1].startTime = 20 /\ subs[1].endTime = 10
    /\ Len(condensedSubs) = 1
    /\ condensedSubs[1].endTime < 0

\* Entries of two periods were emitted, each inside its slice.
C35_TwoSlices ==
    /\ CondensedFromExtracted
    /\ Ascending(filteredSubs)
    /\ Len(periods) = 2
    /\ periods[1].end > periods[1].start
    /\ \E n \in 1..Len(condensedSubs) : condensedSubs[n].startTime >= LengthsBefore(periods, 2)
    /\ AllInSlices(periods, Originals)

\* Of three well-timed entries the third starts before the second: the second
\* period has a negative length, and the total duration is below an end.
C35_NegativePeriod ==
    /\ CondensedFromExtracted
    /\ \A k \in 1..Len(subs) : subs[k].startTime <= subs[k].endTime
    /\ \E k \in 1..Len(periods) : periods[k].end < periods[k].start
    /\ \E n \in 1..Len(condensedSubs) :
          condensedSubs[n].endTime > LengthsBefore(periods, Len(periods) + 1)

\* ------------------------------------------------ claims about the score's zero

\* The available subtitles of the k-th call whose episode number is there and
\* equal to the video's.
EqualEpisodeSubtitles(k) ==
    {f \in Range(pools[k].available) :
        EpisodesAgree(analyzeFilename(results[k].videoFile.name), analyzeFilename(f.name))}

DirectCandidateFiles(k) == {c.file : c \in {d \in CandidatesOf(k) : d.matchType = "direct"}}

\* C36  calculateMatchScore returns 0 exactly when an episode number is
\* missing or the two differ; for equal, present episode numbers the score is
\* at least 30 and at most 95, so the direct candidates findBestSubtitleMatch
\* keeps with score > 0 are exactly the subtitles of the video's episode.
C36_ZeroOnlyAtGate ==
    /\ scored.called =>
          /\ scored.score.n = 0 <=> ~EpisodesAgree(scored.videoInfo, scored.subtitleInfo)
          /\ EpisodesAgree(scored.videoInfo, scored.subtitleInfo) =>
                /\ 30 * scored.score.d <= scored.score.n
                /\ scored.score.n <= 95 * scored.score.d
    /\ \A k \in 1..Len(pools) : DirectCandidateFiles(k) = EqualEpisodeSubtitles(k)

\* C36 happens: equal episode numbers, a confidence below 0.8 on one side and
\* no title word in common, and a score above 0.
C36_Witness ==
    /\ scored.called
    /\ EpisodesAgree(scored.videoInfo, scored.subtitleInfo)
    /\ BelowPoint8(scored.videoInfo.confidence)
    /\ Jaccard(scored.videoInfo, scored.subtitleInfo)[1] = 0
    /\ scored.score.n > 0

\* C36 happens also in findBestSubtitleMatch: of two available subtitles one
\* is of the video's episode and is the only direct candidate.
C36_WitnessFilter ==
    \E k \in 1..Len(pools) :
        /\ Len(pools[k].available) = 2
        /\ Cardinality(EqualEpisodeSubtitles(k)) = 1
        /\ DirectCandidateFiles(k) = EqualEpisodeSubtitles(k)

\* C36 happens also at the top: the score 95.
C36_WitnessTop ==
    /\ scored.called
    /\ scored.score.n = 95 * scored.score.d

\* ------------------------------------------------ the engine's batch run
\* A run is one call of startProcessing or of condenseMultipleFiles with the
\* locals of the call; an execution is one call of condenseSingleFile, at the
\* step it has reached.  JS runs one handler at a time, so an action is what
\* runs between two awaits on timers, file reads and FFmpeg.
MaxBatchVideos == 2   \* videos of a selection
MaxRuns == 2          \* calls of the engine

Min(a, b) == IF a <= b THEN a ELSE b

\* 'queued': not begun; 'subtitles': begun, FFmpeg not yet written to;
\* 'input': 'input.mkv' written; 'exec': FFmpeg ran; 'audio': 'output.wav'
\* read; 'ok' / 'failed': returned / threw.  audio is the video whose sound
\* the execution holds while it works on it.
NoExec == [step |-> "queued", audio |-> 0]
Running == {"subtitles", "input", "exec", "audio"}
Over == {"ok", "failed"}

\* condenser-engine.js:112-120, part_002:376-385   the queue of the videos with
\* a subtitle, each with the position it has among the videos
RECURSIVE QueueUpTo(_, _)
QueueUpTo(subtitleMatches, i) ==
    IF i = 0 THEN <<>>
    ELSE IF subtitleMatches[i]
         THEN Append(QueueUpTo(subtitleMatches, i - 1), [video |-> i, index |-> i])
         ELSE QueueUpTo(subtitleMatches, i - 1)

processingQueue(subtitleMatches) == QueueUpTo(subtitleMatches, Len(subtitleMatches))

\* The locals of a call before it did anything.
NewRun(kind, ui, queue, size, maxConcurrent) ==
    [kind |-> kind, ui |-> ui, queue |-> queue, batchSize |-> size,
     maxConcurrent |-> maxConcurrent,
     totalFiles |-> IF kind = "single" THEN 1 ELSE Len(queue),
     at |-> "start", batchStart |-> 0, item |-> 0,
     execs |-> [q \in 1..Len(queue) |-> NoExec],
     results |-> <<>>, errors |-> <<>>,
     stopped |-> FALSE, startedAfterStop |-> FALSE]

Active(run) == run.at \notin {"returned", "threw"}

\* part_002:396   batchEnd
batchEnd(run) == Min(run.batchStart + run.batchSize, Len(run.queue))

\* part_002:412-418, 255-273   condenseSingleFile is called for the item at
\* queue position q and runs up to its first await
Begun(run, q) ==
    [run EXCEPT !.execs[q].step = "subtitles", !.item = q,
                !.startedAfterStop = @ \/ run.stopped]

\* condenser-engine.js:195-202, main.js:336-340   the call returns
RunOver(run) == [run EXCEPT !.at = "returned"]

\* condenser-engine.js:184-192 and 125, part_002:460-470   after a batch: the
\* pause when files are left, the end of the loop when none is
AfterBatch(run) ==
    IF batchEnd(run) < Len(run.queue) THEN [run EXCEPT !.at = "pause"] ELSE RunOver(run)

\* condenser-engine.js:139-181, part_002:404-458   a batch starts: its first
\* file when maxConcurrent is 1, all its files at once otherwise
RECURSIVE BegunAll(_, _, _)
BegunAll(run, from, to) ==
    IF from > to THEN run ELSE BegunAll(Begun(run, from), from + 1, to)

StartBatch(run) ==
    IF run.maxConcurrent = 1
    THEN [Begun(run, run.batchStart + 1) EXCEPT !.at = "file"]
    ELSE [BegunAll(run, run.batchStart + 1, batchEnd(run)) EXCEPT !.at = "all"]

\* condenser-engine.js:125-129, part_002:390-394   after the pause the next
\* batch, unless shouldStop is set
NextBatch(run, stop) ==
    LET next == [run EXCEPT !.batchStart = @ + run.batchSize]
    IN  IF stop THEN RunOver(next) ELSE StartBatch(next)

\* condenser-engine.js:141-142, part_002:406-407   after the item at queue
\* position q the loop takes the next item of the batch, unless shouldStop is
\* set, and leaves the batch after its last item
AfterItem(run, q, stop) ==
    IF q < batchEnd(run)
    THEN IF stop THEN AfterBatch(run)
         ELSE [Begun(run, q + 1) EXCEPT !.at = "file"]
    ELSE AfterBatch(run)

\* The error leaves condenseMultipleFiles (what the try / catch prevents).
OnErrorRethrow(run, q, stop) == [run EXCEPT !.at = "threw"]

\* condenser-engine.js:158-161, part_002:429-432   the catch inside the loop:
\* the error is recorded and the loop goes on
OnError(run, q, stop) == AfterItem([run EXCEPT !.errors = Append(@, q)], q, stop)

\* The queue positions of the batch whose executions returned a result.
Successes(run) ==
    SelectSeq([k \in 1..(batchEnd(run) - run.batchStart) |-> run.batchStart + k],
              LAMBDA q : run.execs[q].step = "ok")

\* part_002:456-457   Promise.all resolves when every file of the batch is
\* over; the results that are not null are pushed
Settled(run) ==
    IF \A q \in (run.batchStart + 1)..batchEnd(run) : run.execs[q].step \in Over
    THEN AfterBatch([run EXCEPT !.results = @ \o Successes(run)])
    ELSE run

\* part_002:419-427, 429-432, 448-453; main.js:293-298, 322-340   what the
\* caller of condenseSingleFile does when the execution at q is over
Caller(run, q, stop) ==
    IF run.kind = "single" THEN
        IF run.execs[q].step = "ok" THEN RunOver([run EXCEPT !.results = <<q>>])
        ELSE [run EXCEPT !.at = "threw"]
    ELSE IF run.maxConcurrent = 1 THEN
        IF run.execs[q].step = "ok"
        THEN [run EXCEPT !.results = Append(@, q), !.at = "sleep"]
        ELSE OnError(run, q, stop)
    ELSE
        IF run.execs[q].step = "ok" THEN Settled(run)
        ELSE Settled([run EXCEPT !.errors = Append(@, q)])

\* part_002:33-42, 547-555   the file progress at the end of the stage that
\* ends with the step
StageEnd(step) ==
    IF step \in {"input", "exec"} THEN 5
    ELSE IF step = "audio" THEN 45
    ELSE 100

\* part_002:160-168   calculateOverallProgress, as the fraction n / d
calculateOverallProgress(cp, currentFileProgress) ==
    IF cp.totalFiles = 0 THEN [n |-> 0, d |-> 1]
    ELSE [n |-> Min(Max((cp.fileIndex - 1) * 100 + currentFileProgress, 0),
                    100 * cp.totalFiles),
          d |-> cp.totalFiles]

\* part_002:99-117   updateProgressValue
updateProgressValue(cp, p) ==
    [cp EXCEPT !.currentFileProgress = Min(Max(p, 0), 100),
               !.percentComplete = calculateOverallProgress(cp, Min(Max(p, 0), 100))]

\* part_002:263-265   each execution that begins writes its fileIndex and
\* totalFiles into currentProgress; the last one to begin is the one left
ProgressContext(cp, old, new) ==
    LET begun == {q \in 1..Len(new.queue) :
                     old.execs[q].step = "queued" /\ new.execs[q].step = "subtitles"}
    IN  IF begun = {} THEN cp
        ELSE LET q == CHOOSE x \in begun : \A y \in begun : y <= x
             IN  [cp EXCEPT !.fileIndex = IF new.kind = "single" THEN 1
                                          ELSE new.queue[q].index,
                            !.totalFiles = new.totalFiles]

\* main.js:336-346   the application's isProcessing after a handler: cleared
\* when a call it made is over
UIAfter(old, new) ==
    IF new.ui /\ Active(old) /\ ~Active(new) THEN FALSE ELSE isProcessing

BatchSelections == SeqsUpTo(BOOLEAN, MaxBatchVideos) \ {<<>>}

InitBatch ==
    /\ selection \in BatchSelections
    /\ batchSize \in {1, 2}
    /\ isProcessing = FALSE
    /\ shouldStop = FALSE
    /\ runs = <<>>
    /\ ffmpeg = NoFiles
    /\ currentProgress = NoProgress
    /\ CoreIdle
    /\ MatchIdle
    /\ TimeIdle

\* main.js:245-312, App.jsx:144-199   the button is pressed while the
\* application is not processing: one video goes to condenseSingleFile, more
\* go to condenseMultipleFiles with maxConcurrent 1 (main.js:375), which
\* clears shouldStop (condenser-engine.js:94-95) and runs up to its first await
startProcessing ==
    /\ ~isProcessing
    /\ Len(runs) < MaxRuns
    /\ \A r \in 1..Len(runs) : runs[r].ui
    /\ LET single == Len(selection) = 1
           queue == IF single THEN <<[video |-> 1, index |-> 1]>>
                    ELSE processingQueue(selection)
           fresh == NewRun(IF single THEN "single" ELSE "multiple", TRUE, queue,
                           batchSize, 1)
           run == IF single
                  THEN IF selection[1] THEN [Begun(fresh, 1) EXCEPT !.at = "file"]
                       ELSE [fresh EXCEPT !.at = "threw"]
                  ELSE IF queue = <<>> THEN RunOver(fresh) ELSE StartBatch(fresh)
       IN  /\ runs' = Append(runs, run)
           /\ shouldStop' = IF single THEN shouldStop ELSE FALSE
           /\ isProcessing' = Active(run)
           /\ currentProgress' = ProgressContext(currentProgress, fresh, run)
    /\ UNCHANGED <<selection, batchSize, ffmpeg>>
    /\ UNCHANGED coreVars
    /\ UNCHANGED matchVars
    /\ UNCHANGED timeVars

\* condenser-engine.js:81-181, part_002:346-458   condenseMultipleFiles is
\* called with maxConcurrent 2 by a caller other than the button.  The
\* application keeps its engine to itself (main.js:9), so this caller has an
\* engine of its own and calls it once.
condenseMultipleFiles ==
    /\ runs = <<>>
    /\ Len(selection) > 1
    /\ LET queue == processingQueue(selection)
           fresh == NewRun("multiple", FALSE, queue, batchSize, 2)
           run == IF queue = <<>> THEN RunOver(fresh) ELSE StartBatch(fresh)
       IN  /\ runs' = Append(runs, run)
           /\ currentProgress' = ProgressContext(currentProgress, fresh, run)
    /\ shouldStop' = FALSE
    /\ UNCHANGED <<selection, batchSize, isProcessing, ffmpeg>>
    /\ UNCHANGED coreVars
    /\ UNCHANGED matchVars
    /\ UNCHANGED timeVars

\* main.js:245-250, 343-350; condenser-engine.js:208-211   the button is
\* pressed while the application is processing
stopProcessing ==
    /\ isProcessing
    /\ shouldStop' = TRUE
    /\ isProcessing' = FALSE
    /\ runs' = [r \in 1..Len(runs) |->
                  IF Active(runs[r]) THEN [runs[r] EXCEPT !.stopped = TRUE] ELSE runs[r]]
    /\ UNCHANGED <<selection, batchSize, ffmpeg, currentProgress>>
    /\ UNCHANGED coreVars
    /\ UNCHANGED matchVars
    /\ UNCHANGED timeVars

\* part_000:101-102 (part_002:269-292)   an execution has read its subtitles
\* and its video and writes 'input.mkv'
WriteInput ==
    /\ \E r \in 1..Len(runs), q \in 1..MaxBatchVideos :
          /\ q <= Len(runs[r].queue)
          /\ runs[r].execs[q].step = "subtitles"
          /\ runs' = [runs EXCEPT ![r].execs[q].step = "input"]
          /\ ffmpeg' = [ffmpeg EXCEPT !.input = runs[r].queue[q].video]
          /\ currentProgress' = updateProgressValue(currentProgress, StageEnd("input"))
    /\ UNCHANGED <<selection, batchSize, isProcessing, shouldStop>>
    /\ UNCHANGED coreVars
    /\ UNCHANGED matchVars
    /\ UNCHANGED timeVars

\* part_000:114-121   FFmpeg turns what 'input.mkv' holds into 'output.wav'
ExecExtract ==
    /\ \E r \in 1..Len(runs), q \in 1..MaxBatchVideos :
          /\ q <= Len(runs[r].queue)
          /\ runs[r].execs[q].step = "input"
          /\ runs' = [runs EXCEPT ![r].execs[q].step = "exec"]
          /\ ffmpeg' = [ffmpeg EXCEPT !.output = ffmpeg.input]
          /\ currentProgress' = updateProgressValue(currentProgress, StageEnd("exec"))
    /\ UNCHANGED <<selection, batchSize, isProcessing, shouldStop>>
    /\ UNCHANGED coreVars
    /\ UNCHANGED matchVars
    /\ UNCHANGED timeVars

\* part_000:133-146 (part_002:292-294)   the execution reads 'output.wav'
ReadOutput ==
    /\ \E r \in 1..Len(runs), q \in 1..MaxBatchVideos :
          /\ q <= Len(runs[r].queue)
          /\ runs[r].execs[q].step = "exec"
          /\ runs' = [runs EXCEPT ![r].execs[q] = [step |-> "audio", audio |-> ffmpeg.output]]
          /\ currentProgress' = updateProgressValue(currentProgress, StageEnd("audio"))
    /\ UNCHANGED <<selection, batchSize, isProcessing, shouldStop, ffmpeg>>
    /\ UNCHANGED coreVars
    /\ UNCHANGED matchVars
    /\ UNCHANGED timeVars

\* part_002:296-335, 419-427   the execution returns its result; its caller
\* keeps the result
FileCompletes ==
    /\ \E r \in 1..Len(runs), q \in 1..MaxBatchVideos :
          /\ q <= Len(runs[r].queue)
          /\ runs[r].execs[q].step = "audio"
          /\ LET done == [runs[r] EXCEPT !.execs[q] = [step |-> "ok", audio |-> 0]]
                 run == Caller(done, q, shouldStop)
             IN  /\ runs' = [runs EXCEPT ![r] = run]
                 /\ isProcessing' = UIAfter(runs[r], run)
          /\ currentProgress' = updateProgressValue(currentProgress, StageEnd("ok"))
    /\ UNCHANGED <<selection, batchSize, shouldStop, ffmpeg>>
    /\ UNCHANGED coreVars
    /\ UNCHANGED matchVars
    /\ UNCHANGED timeVars

\* part_002:337-340, 429-432   the execution throws at any of its steps; its
\* caller records the error and goes on
FileFails ==
    /\ \E r \in 1..Len(runs), q \in 1..MaxBatchVideos :
          /\ q <= Len(runs[r].queue)
          /\ runs[r].execs[q].step \in Running
          /\ LET done == [runs[r] EXCEPT !.execs[q] = [step |-> "failed", audio |-> 0]]
                 run == Caller(done, q, shouldStop)
             IN  /\ runs' = [runs EXCEPT ![r] = run]
                 /\ isProcessing' = UIAfter(runs[r], run)
                 /\ currentProgress' = ProgressContext(currentProgress, done, run)
    /\ UNCHANGED <<selection, batchSize, shouldStop, ffmpeg>>
    /\ UNCHANGED coreVars
    /\ UNCHANGED matchVars
    /\ UNCHANGED timeVars

\* condenser-engine.js:156, part_002:427   the pause after a file is over
SleepEnds ==
    /\ \E r \in 1..Len(runs) :
          /\ runs[r].at = "sleep"
          /\ LET run == AfterItem(runs[r], runs[r].item, shouldStop)
             IN  /\ runs' = [runs EXCEPT ![r] = run]
                 /\ isProcessing' = UIAfter(runs[r], run)
                 /\ currentProgress' = ProgressContext(currentProgress, runs[r], run)
    /\ UNCHANGED <<selection, batchSize, shouldStop, ffmpeg>>
    /\ UNCHANGED coreVars
    /\ UNCHANGED matchVars
    /\ UNCHANGED timeVars

\* condenser-engine.js:184-192, part_002:460-470   the pause between two
\* batches is over
PauseEnds ==
    /\ \E r \in 1..Len(runs) :
          /\ runs[r].at = "pause"
          /\ LET run == NextBatch(runs[r], shouldStop)
             IN  /\ runs' = [runs EXCEPT ![r] = run]
                 /\ isProcessing' = UIAfter(runs[r], run)
                 /\ currentProgress' = ProgressContext(currentProgress, runs[r], run)
    /\ UNCHANGED <<selection, batchSize, shouldStop, ffmpeg>>
    /\ UNCHANGED coreVars
    /\ UNCHANGED matchVars
    /\ UNCHANGED timeVars

NextBatchRun ==
    \/ startProcessing \/ condenseMultipleFiles \/ stopProcessing
    \/ WriteInput \/ ExecExtract \/ ReadOutput \/ FileCompletes \/ FileFails
    \/ SleepEnds \/ PauseEnds

SpecBatch == InitBatch /\ [][NextBatchRun]_vars

\* ------------------------------------------------ claims about stopping

\* The run is a condenseMultipleFiles call that takes its files one by one.
OneByOne(run) == run.kind = "multiple" /\ run.maxConcurrent = 1

\* C37 (as stated)  once stop() was called while a condenseMultipleFiles run
\* with maxConcurrent 1 is under way, that run starts no further file of its
\* queue, whatever happens afterwards: files that complete, pauses that end,
\* and another run started on the same engine by the button.
C37_Claim ==
    \A r \in 1..Len(runs) : OneByOne(runs[r]) => ~runs[r].startedAfterStop

\* What holds: a stopped run starts no further file as long as no
\* condenseMultipleFiles call is made after it.
C37_StopsUnlessRestarted ==
    \A r \in 1..Len(runs) :
        (OneByOne(runs[r]) /\ \A k \in (r + 1)..Len(runs) : runs[k].kind = "single")
            => ~runs[r].startedAfterStop

\* The stop works: a run was stopped with files left in its queue and
\* returned without starting them.
C37_Stopped ==
    \E r \in 1..Len(runs) :
        /\ OneByOne(runs[r])
        /\ runs[r].stopped
        /\ runs[r].at = "returned"
        /\ runs[r].execs[Len(runs[r].queue)].step = "queued"

\* The stop is undone: the first run was stopped while its first file was
\* under way, the button was pressed again, the second call cleared
\* shouldStop, and the first run went on to its second file.
C37_StartedAfterStop ==
    /\ Len(runs) = 2
    /\ OneByOne(runs[1])
    /\ runs[1].stopped
    /\ runs[1].startedAfterStop
    /\ Len(runs[1].queue) = 2
    /\ runs[1].execs[2].step \in Running
    /\ ~shouldStop

\* ------------------------------------------------ claims about failing files

\* The queue positions up to n at which the run's execution is at the step.
RECURSIVE PositionsAt(_, _, _)
PositionsAt(run, step, n) ==
    IF n = 0 THEN <<>>
    ELSE IF run.execs[n].step = step THEN Append(PositionsAt(run, step, n - 1), n)
         ELSE PositionsAt(run, step, n - 1)

\* C38  with maxConcurrent 1 a condenseSingleFile that throws does not end the
\* batch: the call never rejects, the error is recorded, the results are the
\* files that succeeded, in queue order, and a run that nobody stopped
\* returns only when every file of its queue was processed.
C38_FailureKept ==
    \A r \in 1..Len(runs) :
        OneByOne(runs[r]) =>
            /\ runs[r].at # "threw"
            /\ runs[r].results = PositionsAt(runs[r], "ok", Len(runs[r].queue))
            /\ runs[r].errors = PositionsAt(runs[r], "failed", Len(runs[r].queue))
            /\ (runs[r].at = "returned" /\ ~runs[r].stopped) =>
                  \A q \in 1..Len(runs[r].queue) : runs[r].execs[q].step \in Over

\* C38 happens: the first file of a queue of two failed, the second was
\* processed, and the call returned the second file's result alone.
C38_Witness ==
    \E r \in 1..Len(runs) :
        /\ OneByOne(runs[r])
        /\ runs[r].at = "returned"
        /\ Len(runs[r].queue) = 2
        /\ runs[r].execs[1].step = "failed"
        /\ runs[r].execs[2].step = "ok"
        /\ runs[r].results = <<2>>
        /\ runs[r].errors = <<1>>

\* C38 happens also when every file fails: the call returns no result.
C38_WitnessNone ==
    \E r \in 1..Len(runs) :
        /\ OneByOne(runs[r])
        /\ runs[r].at = "returned"
        /\ runs[r].results = <<>>
        /\ Len(runs[r].errors) = 2

\* ------------------------------------------------ claims about the shared FFmpeg

\* The executions, each named by its run and its queue position.
Executions == {e \in (1..Len(runs)) \X (1..MaxBatchVideos) : e[2] <= Len(runs[e[1]].queue)}

\* The executions between their writeFile('input.mkv') and their
\* readFile('output.wav').
UsingFFmpeg == {e \in Executions : runs[e[1]].execs[e[2]].step \in {"input", "exec"}}

\* The execution read 'output.wav' and holds the sound of its own video.
OwnAudio(e) ==
    runs[e[1]].execs[e[2]].step = "audio" =>
        runs[e[1]].execs[e[2]].audio = runs[e[1]].queue[e[2]].video

\* C39 (as stated)  no two executions of condenseSingleFile use the files
\* 'input.mkv' and 'output.wav' of the engine's FFmpeg at the same time, so
\* each reads back the sound of its own video; also with maxConcurrent above
\* 1, and with a run started while a stopped run's file is under way.
C39_Claim ==
    /\ Cardinality(UsingFFmpeg) <= 1
    /\ \A e \in Executions : OwnAudio(e)

\* What holds: the executions of one run that takes its files one by one,
\* with no other call of the engine, use FFmpeg one after the other.
C39_AloneOneByOne ==
    (Len(runs) = 1 /\ runs[1].maxConcurrent = 1) => C39_Claim

\* The regular case: the second file of a one-by-one run read its own sound
\* from 'output.wav', which held the first file's before.
C39_OwnAudio ==
    /\ Len(runs) = 1
    /\ OneByOne(runs[1])
    /\ Len(runs[1].queue) = 2
    /\ runs[1].execs[1].step = "ok"
    /\ runs[1].execs[2].step = "audio"
    /\ runs[1].execs[2].audio = runs[1].queue[2].video

\* With maxConcurrent 2 both files of a batch have written 'input.mkv' and
\* neither has read 'output.wav' yet.
C39_OverlapInBatch ==
    /\ Len(runs) = 1
    /\ runs[1].maxConcurrent = 2
    /\ Cardinality(UsingFFmpeg) = 2

\* The same between a stopped run's file and the first file of the run the
\* button started after the stop.
C39_OverlapAfterStop ==
    /\ Len(runs) = 2
    /\ runs[1].stopped
    /\ \E e, f \in UsingFFmpeg : e[1] = 1 /\ f[1] = 2

\* An execution read the sound of another video: the other execution wrote
\* 'input.mkv' between this one's write and FFmpeg's run.
C39_ForeignAudio ==
    \E e \in Executions :
        /\ runs[e[1]].execs[e[2]].step = "audio"
        /\ runs[e[1]].execs[e[2]].audio # runs[e[1]].queue[e[2]].video

\* ------------------------------------------------ claims about the progress

\* The engine was called once, for a run that takes its files one by one, and
\* currentProgress is what the execution at queue position q reported last.
ReportedBy(q) ==
    /\ Len(runs) = 1
    /\ OneByOne(runs[1])
    /\ q = runs[1].item
    /\ q >= 1
    /\ runs[1].execs[q].step \in {"input", "exec", "audio", "ok"}

AtHundred(cp) == cp.percentComplete.n = 100 * cp.percentComplete.d

\* What C40 says of a report of the execution at queue position q.
QueuePosition(q) ==
    /\ currentProgress.fileIndex = q
    /\ 1 <= currentProgress.fileIndex
    /\ currentProgress.fileIndex <= currentProgress.totalFiles
    /\ AtHundred(currentProgress) => q = Len(runs[1].queue)

\* C40 (as stated)  the fileIndex reported during a batch is the file's
\* 1-based position in the processing queue, with 1 <= fileIndex <= totalFiles,
\* and percentComplete reaches 100 only during the last queued file; also
\* when some selected videos have no subtitle.
C40_Claim ==
    \A q \in 1..MaxBatchVideos : ReportedBy(q) => QueuePosition(q)

\* What holds: the same when no video without a subtitle comes before a video
\* with one, so that every queued file's position among the videos is its
\* position in the queue.
C40_WhenNoneSkippedBefore ==
    \A q \in 1..MaxBatchVideos :
        (ReportedBy(q) /\ \A k \in 1..Len(runs[1].queue) : runs[1].queue[k].index = k)
            => QueuePosition(q)

\* The regular case: of two queued files the first reported its end at 50
\* percent.
C40_HalfWay ==
    /\ ReportedBy(1)
    /\ Len(runs[1].queue) = 2
    /\ runs[1].execs[1].step = "ok"
    /\ currentProgress.fileIndex = 1
    /\ currentProgress.totalFiles = 2
    /\ currentProgress.percentComplete = [n |-> 100, d |-> 2]

\* And the second one reported its end at 100 percent.
C40_LastAtHundred ==
    /\ ReportedBy(2)
    /\ Len(runs[1].queue) = 2
    /\ runs[1].execs[2].step = "ok"
    /\ currentProgress.fileIndex = 2
    /\ AtHundred(currentProgress)

\* The first of two videos has no subtitle: the only queued file reports
\* fileIndex 2 of totalFiles 1, and 100 percent from its first report on.
C40_IndexBeyondTotal ==
    /\ selection = <<FALSE, TRUE>>
    /\ ReportedBy(1)
    /\ runs[1].execs[1].step = "input"
    /\ currentProgress.fileIndex = 2
    /\ currentProgress.totalFiles = 1
    /\ currentProgress.currentFileProgress = 5
    /\ AtHundred(currentProgress)

====
